---------------------------- MODULE Spec2Model ----------------------------
(***************************************************************************)
(* Digital twin of the job shop (simulazione_core.py): the event kernel    *)
(* the code drives (simpy.Environment, PriorityResource, Store), the       *)
(* shift calendar, the resources with their metrics, the routing           *)
(* strategies and the production orchestrator.                             *)
(*                                                                         *)
(* Time is counted in thousandths of a minute (MILLI ticks per minute):    *)
(* the smallest constant the code adds to the clock is 0.001 minutes.      *)
(* One behaviour is one run: orders are released at time 0 (the batch      *)
(* loop of esegui_lotto_stocastico), then the kernel pops one event at a   *)
(* time (Passo) and the process it wakes runs, segment by segment, up to   *)
(* its next yield; no other process runs in between (attivo).              *)
(*                                                                         *)
(* Spec runs the four routings of the base configuration; SpecSingola runs *)
(* single-operation orders on the Forno, with and without daily caps;      *)
(* SpecCalendario runs one process that calls the shift calendar;          *)
(* SpecLotto runs a batch to the end, under weak fairness of the stepping  *)
(* loop; SpecCostruzione starts from constructions that succeed and from   *)
(* constructions that raise; SpecSeme runs seeded batches with every       *)
(* stochastic event on; SpecGuasti runs the one-unit shop with breakdowns, *)
(* SpecContesa the same shop seeded and under weak fairness; SpecRilascio  *)
(* runs routings that end in an error, behind a daily cap and an empty     *)
(* component store; SpecAssemblaggio runs assemblies that contend for the  *)
(* components, under weak fairness; SpecTurni runs the one-unit shop on a  *)
(* one-hour shift; SpecSettimana runs a week of the daily-cap gate;        *)
(* SpecScorte runs the shop with the replenishment monitor on, and         *)
(* SpecScorteCiclo some of its runs under weak fairness.                   *)
(***************************************************************************)
EXTENDS Integers, Sequences, FiniteSets, TLC

VARIABLES
    now,                  \* ambiente.now, in ticks
    coda,                 \* the kernel's event queue, in pop order
    attivo,               \* the process that is running (0: none)
    avviato,              \* the run has started (no release after that)
    cfg,                  \* ConfigurazioneSimulazione and constructor inputs
    errore,               \* the exception the construction raised ("": none)
    rng,                  \* the state of MotoreSimulazione.rng
    proc,                 \* per order process: position and locals
    ordine,               \* per order: the OrdineDiLavoro fields
    users,                \* per resource: requests holding a unit
    put_queue,            \* per resource: waiting requests, sorted by key
    risorsa,              \* per resource: counters, log_eventi, ultimo_prodotto
    buffer_scorte,        \* per product: items of the finished-goods store
    magazzino_intermedio, \* per component: items of the intermediate store
    get_queue,            \* per component: processes waiting on get
    giorno_corrente,
    produzione_giornaliera_per_prodotto,
    produzione_giornaliera_totale,
    ordini_completati,
    richieste,            \* history: per resource, the requests in arrival order
    concessioni,          \* history: per resource, the requests in grant order
    depositi,             \* history: per component store, the items put
    prelievi,             \* history: per component store, the items got
    passati               \* history: orders that passed the daily-cap gate

vars == <<now, coda, attivo, avviato, cfg, errore, rng, proc, ordine, users, put_queue,
          risorsa, buffer_scorte, magazzino_intermedio, get_queue,
          giorno_corrente, produzione_giornaliera_per_prodotto,
          produzione_giornaliera_totale, ordini_completati,
          richieste, concessioni, depositi, prelievi, passati>>

-----------------------------------------------------------------------------
(* Bounds of the model *)

MaxOrdini == 3        \* orders released in one run
QtaInizialeFL == 1    \* initial FL-01 stock (scaled down from the code's 20)
QtaInizialeIN == 4    \* initial IN-07 stock (scaled down from the code's 40)
QtaInizialeScarsa == 1   \* initial IN-07 stock of the runs that run out of it
MaxOrdiniGuasti == 2  \* orders of a run with breakdowns or rework
MaxGiorni == 7        \* days after which the run is cut (the code's 365)
MaxGiorniCalendario == 10   \* the same, for the runs of a calendar caller
MaxOrdiniAssemblaggio == 5  \* orders of a batch of flanges and assemblies
MaxGiorniScorte == 1  \* days after which a run with the monitor on is cut
MaxOrdiniSettimana == 7   \* orders of a batch that is let in one order a day

-----------------------------------------------------------------------------
(* Units and enumerations *)

MILLI == 1000
MINUTI_GIORNALIERI == 1440
GIORNO == MINUTI_GIORNALIERI * MILLI

Min(a, b) == IF a <= b THEN a ELSE b
Max(a, b) == IF a >= b THEN a ELSE b

TipoProdotto == {"FL-01", "PN-03", "IN-07", "RD-01"}
TipoMacchinario == {"Troncatrice", "Trapano", "Tornio", "Fresa", "Rettifica",
                    "Forno", "Banco Assemblaggio", "Banco Collaudo",
                    "Banco Controllo"}
TipoOperatore == {"Operatore Generico", "Tecnico Specializzato"}
PoliticaSchedulazione == {"FIFO", "SPT", "EDD"}
Risorse == TipoMacchinario \cup TipoOperatore
Componenti == {"FL-01", "IN-07"}
NESSUNO == "nessuno"     \* Python's None for an operator type or a product
NON_IMPOSTATO == -1      \* Python's None for a time or a limit

URGENT == 0
NORMAL == 1

-----------------------------------------------------------------------------
(* GestoreTempo: the calendar of a clock reading (epoch: Monday 00:00) *)

weekdayDaDomenica(t) == ((t \div GIORNO) + 1) % 7   \* a week that starts on Sunday

\* datetime.weekday() of data_inizio + timedelta(minutes): 0 is Monday.
weekday(t) == (t \div GIORNO) % 7
ora(t) == (t % GIORNO) \div (60 * MILLI)
minuto(t) == ((t % GIORNO) \div MILLI) % 60
is_fine_settimana(t) == weekday(t) >= 5

\* Python's round(): to the nearest minute, a half to the even one.
round_minuti(t) ==
    LET q == t \div MILLI
        r == t % MILLI
    IN  IF r * 2 < MILLI THEN q
        ELSE IF r * 2 > MILLI THEN q + 1
        ELSE IF q % 2 = 0 THEN q ELSE q + 1

AttesaTurnoMai(t, c) == 0   \* a calendar whose shift is always open

\* What one pass of attendi_turno_lavorativo's loop waits for (0: it returns).
AttesaTurno(t, c) ==
    IF weekday(t) >= 5
    THEN LET giorni_al_lunedi == 7 - weekday(t)
             minuti_a_mezzanotte == ((24 - ora(t) - 1) * 60) + (60 - minuto(t))
             tempo_attesa_weekend ==
                 (minuti_a_mezzanotte + (giorni_al_lunedi - 1) * 24 * 60
                  + c.orario_inizio_turno * 60) * MILLI
         IN  (IF tempo_attesa_weekend <= 100 THEN MILLI ELSE tempo_attesa_weekend)
             + 100
    ELSE LET minuti_giornalieri == round_minuti(t) % MINUTI_GIORNALIERI
             minuti_inizio == c.orario_inizio_turno * 60
             minuti_fine == c.orario_fine_turno * 60
         IN  IF minuti_giornalieri >= minuti_fine
             THEN LET a == (MINUTI_GIORNALIERI - minuti_giornalieri) + minuti_inizio
                  IN  (IF a <= 0 THEN 1 ELSE a) * MILLI
             ELSE IF minuti_giornalieri < minuti_inizio
             THEN LET a == minuti_inizio - minuti_giornalieri
                  IN  (IF a <= 0 THEN 1 ELSE a) * MILLI
             ELSE 0

-----------------------------------------------------------------------------
(* The event kernel: simpy.Environment *)

Evento(t, pr, tipo, p, r) == [t |-> t, pr |-> pr, tipo |-> tipo, p |-> p, r |-> r]

SchedulaInTesta(q, e) ==   \* a heap without the eid: the newest of a tie first
    LET prima == {i \in 1..Len(q) :
                     q[i].t < e.t \/ (q[i].t = e.t /\ q[i].pr < e.pr)}
        k == Cardinality(prima)
    IN  SubSeq(q, 1, k) \o <<e>> \o SubSeq(q, k + 1, Len(q))

\* heappush on (time, priority, eid): after every event that is not later.
Schedula(q, e) ==
    LET prima == {i \in 1..Len(q) :
                     q[i].t < e.t \/ (q[i].t = e.t /\ q[i].pr <= e.pr)}
        k == Cardinality(prima)
    IN  SubSeq(q, 1, k) \o <<e>> \o SubSeq(q, k + 1, Len(q))

(* simpy.PriorityResource *)

\* A PriorityRequest: its process and key. The other fields are history: n, its
\* arrival number on the resource; occupati, the units in use and concessi, the
\* grants already made when it was issued; durata, the operation's base duration.
Richiesta(p, priorita, t, n, occupati, concessi, durata) ==
    [p |-> p, priorita |-> priorita, t |-> t, n |-> n,
     occupati |-> occupati, concessi |-> concessi, durata |-> durata]

ChiavePrima(a, b) ==     \* key a <= key b, key = (priority, time)
    a.priorita < b.priorita \/ (a.priorita = b.priorita /\ a.t <= b.t)

InserisciInCoda(q, e) == Append(q, e)   \* a plain queue, as simpy.Resource has

InserisciInTesta(q, e) ==   \* a sort that is not stable: ties go first
    LET prima == {i \in 1..Len(q) : ~ChiavePrima(e, q[i])}
        k == Cardinality(prima)
    IN  SubSeq(q, 1, k) \o <<e>> \o SubSeq(q, k + 1, Len(q))

\* SortedQueue.append: append, then a stable sort by key.
InserisciOrdinato(q, e) ==
    LET prima == {i \in 1..Len(q) : ChiavePrima(q[i], e)}
        k == Cardinality(prima)
    IN  SubSeq(q, 1, k) \o <<e>> \o SubSeq(q, k + 1, Len(q))

PuoConcedereSempre(n, capacita) == TRUE   \* a grant that ignores the capacity

\* Resource._do_put's test.
PuoConcedere(n, capacita) == n < capacita

\* The part of the state the kernel's callbacks change.
Nucleo == [coda |-> coda, users |-> users, put_queue |-> put_queue,
           concessioni |-> concessioni, richieste |-> richieste,
           magazzino_intermedio |-> magazzino_intermedio,
           get_queue |-> get_queue, prelievi |-> prelievi, proc |-> proc]

\* BaseResource._trigger_put with Resource._do_put: the head of the queue, and
\* only the head, is granted if a unit is free; its event is scheduled at t.
TriggerPut(r, st, t) ==
    IF st.put_queue[r] # <<>> /\ PuoConcedere(Len(st.users[r]), cfg.capacita[r])
    THEN LET rq == Head(st.put_queue[r])
         IN  [st EXCEPT !.users[r] = Append(@, rq.p),
                        !.put_queue[r] = Tail(@),
                        !.concessioni[r] = Append(@, rq),
                        !.coda = Schedula(@, Evento(t, NORMAL, "req", rq.p, r))]
    ELSE st

\* RisorsaProduttiva.richiedi_accesso: PriorityRequest, Put.__init__.
richiedi_accesso(r, p, priorita, durata, st, t) ==
    LET rq == Richiesta(p, priorita, t, Len(st.richieste[r]) + 1,
                        Len(st.users[r]), Len(st.concessioni[r]), durata)
    IN  TriggerPut(r, [st EXCEPT !.put_queue[r] = InserisciOrdinato(@, rq),
                                 !.richieste[r] = Append(@, rq)], t)

Togli(s, x) ==   \* list.remove: the first occurrence
    LET k == CHOOSE i \in 1..Len(s) : s[i] = x /\ \A j \in 1..(i - 1) : s[j] # x
    IN  SubSeq(s, 1, k - 1) \o SubSeq(s, k + 1, Len(s))

\* A release that returns the unit and wakes no one.
releaseSenzaRisveglio(r, p, st, t) ==
    [st EXCEPT !.users[r] = IF \E i \in 1..Len(@) : @[i] = p THEN Togli(@, p) ELSE @]

\* Request.__exit__: Resource.release, Resource._do_get. The unit is returned
\* at once; the waiting head is granted when the release event is processed.
release(r, p, st, t) ==
    [st EXCEPT !.users[r] = IF \E i \in 1..Len(@) : @[i] = p THEN Togli(@, p) ELSE @,
               !.coda = Schedula(@, Evento(t, NORMAL, "rel", 0, r))]

EsceSenzaRilascio(r, p, st, t) == st   \* a request made outside a with block

\* The exit of `with macchina.richiedi_accesso(...)` on an exception raised
\* inside the block: the unit is released as on a normal exit.
EsceConErrore(r, p, st, t) == release(r, p, st, t)

(* simpy.Store *)

IndiceUltimo(items) == Len(items)   \* a store that pops the newest item

\* Store._do_get takes items.pop(0).
IndicePrelievo(items) == 1

\* A get that hands over the oldest item and leaves it in the store.
TriggerGetSenzaTogliere(c, st, t) ==
    IF st.get_queue[c] # <<>> /\ st.magazzino_intermedio[c] # <<>>
    THEN LET p == Head(st.get_queue[c])
             items == st.magazzino_intermedio[c]
         IN  [st EXCEPT !.get_queue[c] = Tail(@),
                        !.prelievi[c] = Append(@, items[1]),
                        !.proc[p].comp = items[1],
                        !.coda = Schedula(@, Evento(t, NORMAL, "get", p, c))]
    ELSE st

\* BaseResource._trigger_get with Store._do_get: the head of the get queue
\* receives the oldest item, if there is one.
TriggerGet(c, st, t) ==
    IF st.get_queue[c] # <<>> /\ st.magazzino_intermedio[c] # <<>>
    THEN LET p == Head(st.get_queue[c])
             items == st.magazzino_intermedio[c]
             k == IndicePrelievo(items)
         IN  [st EXCEPT !.magazzino_intermedio[c] =
                            SubSeq(items, 1, k - 1) \o SubSeq(items, k + 1, Len(items)),
                        !.get_queue[c] = Tail(@),
                        !.prelievi[c] = Append(@, items[k]),
                        !.proc[p].comp = items[k],
                        !.coda = Schedula(@, Evento(t, NORMAL, "get", p, c))]
    ELSE st

Applica(st) ==
    /\ coda' = st.coda
    /\ users' = st.users
    /\ put_queue' = st.put_queue
    /\ concessioni' = st.concessioni
    /\ richieste' = st.richieste
    /\ magazzino_intermedio' = st.magazzino_intermedio
    /\ get_queue' = st.get_queue
    /\ prelievi' = st.prelievi
    /\ proc' = st.proc

-----------------------------------------------------------------------------
(* Configuration *)

\* GestoreConfigurazione._crea_configurazione_base: tempi, in ticks.
TempiBase ==
    [m \in TipoMacchinario |-> [p \in TipoProdotto |->
        MILLI * (CASE m = "Troncatrice" /\ p = "FL-01" -> 10
                   [] m = "Troncatrice" /\ p = "PN-03" -> 15
                   [] m = "Troncatrice" /\ p = "IN-07" -> 30
                   [] m = "Trapano" /\ p = "FL-01" -> 10
                   [] m = "Tornio" /\ p = "PN-03" -> 30
                   [] m = "Fresa" /\ p = "IN-07" -> 45
                   [] m = "Rettifica" /\ p \in {"PN-03", "IN-07"} -> 20
                   [] m = "Forno" /\ p = "IN-07" -> 12
                   [] m = "Banco Assemblaggio" /\ p = "RD-01" -> 60
                   [] m = "Banco Collaudo" /\ p = "RD-01" -> 30
                   [] m = "Banco Controllo" /\ p # "RD-01" -> 10
                   [] OTHER -> 0)]]

CapacitaBase ==
    [r \in Risorse |->
        CASE r \in {"Troncatrice", "Tornio", "Tecnico Specializzato"} -> 3
          [] r = "Forno" -> 1
          [] r = "Operatore Generico" -> 6
          [] OTHER -> 2]

\* _inizializza_asset's caps.get(tipo, 1) on an empty capacity table.
CapacitaUno == [r \in Risorse |-> 1]

\* distinta_base of the base configuration.
DistintaBase == [c \in TipoProdotto |->
                    CASE c = "FL-01" -> 1 [] c = "PN-03" -> 2 [] OTHER -> 0]

ConfigurazioneBase ==
    [tempi_lavorazione |-> TempiBase,
     capacita |-> CapacitaBase,
     probabilita_rifacimento |-> 50,          \* per mille
     richiede_specialista |-> TRUE,
     ha_limiti_prodotto |-> FALSE,            \* limiti_produzione_giornaliera is not None
     limiti_produzione_giornaliera |-> [p \in TipoProdotto |-> NON_IMPOSTATO],
     limite_produzione_totale_giornaliera |-> NON_IMPOSTATO,
     fattore_variabilita_processo |-> 0,      \* per cent
     tempo_setup_minuti |-> 15 * MILLI,
     probabilita_guasto |-> 10,               \* per mille
     minuti_riparazione_min |-> 60,
     minuti_riparazione_max |-> 180,
     orario_inizio_turno |-> 8,
     orario_fine_turno |-> 17,
     distinta_base |-> DistintaBase,
     politica |-> "FIFO",
     strategie |-> "cicli",
     lotto_ordini |-> MaxOrdini,              \* how many orders the batch may hold
     lotto_prodotti |-> TipoProdotto,         \* and of which products
     lotto_scadenze |-> {2880 * MILLI},
     quantita_iniziali |-> [c \in Componenti |->   \* the constructor's stock
                              IF c = "FL-01" THEN QtaInizialeFL ELSE QtaInizialeIN],
     livelli_scorta_minima |-> [p \in TipoProdotto |-> NON_IMPOSTATO],    \* None
     lotto_riordino_standard |-> [p \in TipoProdotto |-> NON_IMPOSTATO],  \* None
     seme |-> NON_IMPOSTATO,                  \* seme_casuale (None: not seeded)
     durata_giorni |-> MaxGiorni,             \* the horizon of the stepping loop
     istante |-> 0,                           \* when a calendar caller makes its call
     durata_avanza |-> 0]                     \* and the minutes it asks to work

-----------------------------------------------------------------------------
(* Routing strategies, as the sequence of steps esegui_processo runs *)

PassoCiclo(k, macchina, durata, operatore, vincolo) ==
    [k |-> k, macchina |-> macchina, durata |-> durata,
     operatore |-> operatore, vincolo |-> vincolo]

Op(m, prod, c) ==
    PassoCiclo("op", m, c.tempi_lavorazione[m][prod], "Operatore Generico", FALSE)

\* tipo_operatore = SPECIALIZZATO if richiede_specialista else GENERICO
OpSpecialista(m, prod, c) ==
    PassoCiclo("op", m, c.tempi_lavorazione[m][prod],
               IF c.richiede_specialista THEN "Tecnico Specializzato"
                                         ELSE "Operatore Generico",
               c.richiede_specialista)

Get(comp) == PassoCiclo("get", comp, 0, NESSUNO, FALSE)
Rilav == PassoCiclo("rilav", NESSUNO, 0, NESSUNO, FALSE)
PutScorte == PassoCiclo("put_s", NESSUNO, 0, NESSUNO, FALSE)
PutIntermedio == PassoCiclo("put_m", NESSUNO, 0, NESSUNO, FALSE)
Fine == PassoCiclo("fine", NESSUNO, 0, NESSUNO, FALSE)

StrategiaFL01(c) ==
    << Op("Troncatrice", "FL-01", c), Op("Trapano", "FL-01", c),
       Op("Banco Controllo", "FL-01", c), Op("Banco Controllo", "FL-01", c),
       PutScorte, PutIntermedio, Fine >>

StrategiaPN03(c) ==
    << Op("Troncatrice", "PN-03", c), OpSpecialista("Tornio", "PN-03", c),
       Op("Rettifica", "PN-03", c), Op("Banco Controllo", "PN-03", c),
       Rilav, Rilav, PutScorte, Fine >>

StrategiaIN07(c) ==
    << Op("Troncatrice", "IN-07", c), OpSpecialista("Fresa", "IN-07", c),
       Op("Rettifica", "IN-07", c), Op("Forno", "IN-07", c),
       Op("Banco Controllo", "IN-07", c),
       Rilav, Rilav, PutScorte, PutIntermedio, Fine >>

StrategiaRD01SenzaUnPrelievo(c) ==   \* an assembly that skips one withdrawal
    << Get("FL-01"), Get("IN-07"),
       Op("Banco Assemblaggio", "RD-01", c), Op("Banco Collaudo", "RD-01", c),
       Fine >>

StrategiaRD01(c) ==
    << Get("FL-01"), Get("IN-07"), Get("IN-07"),
       Op("Banco Assemblaggio", "RD-01", c), Op("Banco Collaudo", "RD-01", c),
       Fine >>

\* A strategy that calls esegui_operazione once, with tipo_operatore left at
\* its default (None): one operation on the Forno, no operator step.
StrategiaSingola(prod, c) ==
    << PassoCiclo("op", "Forno", c.tempi_lavorazione["Forno"][prod], NESSUNO, FALSE),
       Fine >>

\* A process that calls the shift calendar itself: it sleeps until c.istante,
\* then calls avanza_tempo_lavorativo(c.durata_avanza) or, when that is 0,
\* attendi_turno_lavorativo, and ends when the call returns.
Ritardo(d) == PassoCiclo("ritardo", NESSUNO, d, NESSUNO, FALSE)
ChiamataAttendi == PassoCiclo("attendi", NESSUNO, 0, NESSUNO, FALSE)
ChiamataAvanza(d) == PassoCiclo("avanza", NESSUNO, d, NESSUNO, FALSE)

StrategiaChiamante(c) ==
    << Ritardo(c.istante),
       IF c.durata_avanza > 0 THEN ChiamataAvanza(c.durata_avanza) ELSE ChiamataAttendi,
       Fine >>

\* A routing that names an operator type the layout does not have.
StrategiaOperatoreIgnoto(c) ==
    << Op("Troncatrice", "PN-03", c),
       PassoCiclo("op", "Tornio", c.tempi_lavorazione["Tornio"]["PN-03"],
                  "Operatore Ignoto", FALSE),
       Fine >>

\* strategie.get(id_prodotto)
Strategia(prod, c) ==
    IF c.strategie = "senza FL-01" /\ prod = "FL-01" THEN <<>>   \* None: no entry
    ELSE IF c.strategie = "singola" THEN StrategiaSingola(prod, c)
    ELSE IF c.strategie = "ignoto" /\ prod = "PN-03" THEN StrategiaOperatoreIgnoto(c)
    ELSE IF c.strategie = "chiamante" THEN StrategiaChiamante(c)
    ELSE CASE prod = "FL-01" -> StrategiaFL01(c)
           [] prod = "PN-03" -> StrategiaPN03(c)
           [] prod = "IN-07" -> StrategiaIN07(c)
           [] prod = "RD-01" -> StrategiaRD01(c)

\* stima_tempo_ciclo(configurazione) of the strategy of prod: the sum each
\* class returns.
stima_tempo_ciclo(prod, c) ==
    LET tempi == c.tempi_lavorazione
    IN  CASE prod = "FL-01" -> tempi["Troncatrice"]["FL-01"] + tempi["Trapano"]["FL-01"]
                               + tempi["Banco Controllo"]["FL-01"]
          [] prod = "PN-03" -> tempi["Troncatrice"]["PN-03"] + tempi["Tornio"]["PN-03"]
                               + tempi["Rettifica"]["PN-03"]
                               + tempi["Banco Controllo"]["PN-03"]
          [] prod = "IN-07" -> tempi["Troncatrice"]["IN-07"] + tempi["Fresa"]["IN-07"]
                               + tempi["Rettifica"]["IN-07"] + tempi["Forno"]["IN-07"]
                               + tempi["Banco Controllo"]["IN-07"]
          [] prod = "RD-01" -> tempi["Banco Assemblaggio"]["RD-01"]
                               + tempi["Banco Collaudo"]["RD-01"]

\* A rework that inspects before it rectifies.
PassiRilavorazioneInvertiti(prod, c) ==
    << Op("Banco Controllo", prod, c), Op("Rettifica", prod, c) >>

\* _gestisci_rilavorazione's two operations.
PassiRilavorazione(prod, c) ==
    << Op("Rettifica", prod, c), Op("Banco Controllo", prod, c) >>

-----------------------------------------------------------------------------
(* Resource metrics *)

\* The fields of a RisorsaProduttiva, and two of history: ultimo_completato, the
\* product of the operation that last ended on the resource, and operazioni, one
\* entry per operation that was granted the machine.
RisorsaNuova ==
    [tempo_occupato_totale |-> 0, tempo_lavorazione |-> 0, tempo_setup |-> 0,
     tempo_guasto |-> 0, log_eventi |-> <<>>, ultimo_prodotto |-> NESSUNO,
     ultimo_completato |-> NESSUNO, operazioni |-> <<>>]

Operazione(p, prodotto, precedente, marcatore, setup) ==
    [p |-> p, prodotto |-> prodotto, precedente |-> precedente,
     marcatore |-> marcatore, setup |-> setup]

\* The history entry of p's operation in progress: the last one it opened.
UltimaDi(ops, p) ==
    CHOOSE i \in 1..Len(ops) :
        ops[i].p = p /\ \A j \in (i + 1)..Len(ops) : ops[j].p # p

\* A recording that counts a breakdown as processing.
registraGuastoComeLavorazione(rec, durata, tipo) ==
    [rec EXCEPT !.tempo_occupato_totale = @ + durata,
                !.tempo_lavorazione = IF tipo \in {"lavorazione", "guasto"}
                                      THEN @ + durata ELSE @,
                !.tempo_setup = IF tipo = "setup" THEN @ + durata ELSE @]

\* RisorsaProduttiva.registra_tempo_utilizzo
registra_tempo_utilizzo(rec, durata, tipo) ==
    [rec EXCEPT !.tempo_occupato_totale = @ + durata,
                !.tempo_lavorazione = IF tipo = "lavorazione" THEN @ + durata ELSE @,
                !.tempo_setup = IF tipo = "setup" THEN @ + durata ELSE @,
                !.tempo_guasto = IF tipo = "guasto" THEN @ + durata ELSE @]

VoceLog(tipo, inizio, fine, id) ==
    [tipo |-> tipo, inizio |-> inizio, fine |-> fine, ordine |-> id]

-----------------------------------------------------------------------------
(* The random generator: MotoreSimulazione.rng *)

\* random.Random(seme) is a deterministic stream: the state after a draw is a
\* function of the state before it, and so is the value drawn. The stream is
\* modelled by a congruential generator of period 32, seeded with seme.
Genera(x) == (x * 13 + 7) % 32

\* The value a draw among valori takes in state x of the generator.
Scelto(valori, x) ==
    CHOOSE v \in valori :
        Cardinality({w \in valori : w < v}) = (x \div 8) % Cardinality(valori)

EstrazioniLibere(valori, x, c) == valori   \* draws from a generator of their own

\* The values a draw among valori can take: the one the stream gives, or any of
\* them when the generator was not seeded (random.Random() seeds itself from
\* the operating system).
Estrazioni(valori, x, c) ==
    IF c.seme = NON_IMPOSTATO THEN valori ELSE {Scelto(valori, x)}

\* The state of the generator after a draw.
Dopo(x, c) == IF c.seme = NON_IMPOSTATO THEN x ELSE Genera(x)

-----------------------------------------------------------------------------
(* Construction: ConfigurazioneSimulazione and SistemaProduttivo.__init__ *)

\* The order in which _inizializza_asset builds the resources.
OrdineRisorse ==
    << "Troncatrice", "Trapano", "Tornio", "Fresa", "Rettifica", "Forno",
       "Banco Assemblaggio", "Banco Collaudo", "Banco Controllo",
       "Operatore Generico", "Tecnico Specializzato" >>

\* ConfigurazioneSimulazione.__post_init__: TRUE when it does not raise.
post_init(c) ==
    0 <= c.probabilita_rifacimento /\ c.probabilita_rifacimento <= 1000

CapacitaNonNegativa(capacita) == capacita >= 0   \* a test that lets capacity 0 through

\* RisorsaProduttiva.__init__: TRUE when it does not raise.
CapacitaAmmessa(capacita) == ~(capacita < 1)

\* The resources _inizializza_asset has built when it returns or raises.
RisorseCostruite(c) ==
    LET rifiutate == {i \in 1..Len(OrdineRisorse) :
                         ~CapacitaAmmessa(c.capacita[OrdineRisorse[i]])}
    IN  {OrdineRisorse[i] : i \in {j \in 1..Len(OrdineRisorse) :
                                       \A k \in rifiutate : j < k}}

\* The exception that ends the construction, "" when it succeeds.
Esito(c) ==
    IF ~post_init(c) THEN "ValueError: probabilita_rifacimento"
    ELSE IF RisorseCostruite(c) # Risorse THEN "ValueError: capacita"
    ELSE ""

\* What exists of a collection once the construction has ended: nothing when
\* the configuration itself was refused.
Esistenti(c, insieme) == IF post_init(c) THEN insieme ELSE {}

-----------------------------------------------------------------------------
(* Initial state: SistemaProduttivo.__init__ *)

Articolo(stock, prod, n) == [stock |-> stock, prodotto |-> prod, n |-> n]
NessunArticolo == Articolo(FALSE, NESSUNO, 0)

\* quantita_iniziali: the STOCK-INIT orders put in the intermediate stores.
ScortaIniziale(comp, c) ==
    [i \in 1..c.quantita_iniziali[comp] |-> Articolo(TRUE, comp, i - 1)]

\* The process of monitor_scorte, where attivo names the running process.
MONITOR == -2

\* if self.configurazione.livelli_scorta_minima: a dictionary with an entry.
HaMonitor(c) == \E p \in TipoProdotto : c.livelli_scorta_minima[p] # NON_IMPOSTATO

\* Each store.put of the constructor leaves its event in the queue, and so
\* does the start of the monitor's process, which is urgent.
CodaIniziale(c) ==
    LET messi ==
            [i \in 1..c.quantita_iniziali["FL-01"] |-> Evento(0, NORMAL, "put_m", 0, "FL-01")]
            \o [i \in 1..c.quantita_iniziali["IN-07"] |-> Evento(0, NORMAL, "put_m", 0, "IN-07")]
    IN  IF HaMonitor(c) THEN Schedula(messi, Evento(0, URGENT, "init", MONITOR, ""))
        ELSE messi

\* The locals of a process, and three of history about its last call of
\* attendi_turno_lavorativo: chiamata, the clock reading at the call; attese, the
\* delays the call has issued; giri, the passes of the loop that issued them
\* (back to 0 when the call returns).
ProcNuovo ==
    [pc |-> "elabora", programma |-> <<>>, ret |-> "", dopo |-> "", priorita |-> 0,
     operatore |-> NESSUNO, durata_effettiva |-> 0, tempo_riparazione |-> 0,
     residuo |-> 0, comp |-> NessunArticolo,
     chiamata |-> NON_IMPOSTATO, attese |-> <<>>, giri |-> 0]

\* OrdineDiLavoro(id, prodotto, tempo_creazione, scadenza)
OrdineNuovo(id, prod, t, scad) ==
    [id |-> id, prodotto |-> prod, tempo_creazione |-> t, scadenza |-> scad,
     tempo_completamento |-> NON_IMPOSTATO, cronologia_fasi |-> <<>>,
     log_lavorazioni |-> <<>>, consumato |-> FALSE, componenti_consumati |-> <<>>,
     riordino |-> FALSE]   \* history: an R-ORD order, created by monitor_scorte

\* The dummy_order of a STOCK-INIT item: created and completed at 0.0.
OrdineScorta(comp, i) ==
    [OrdineNuovo(<<"STOCK-INIT", comp, i>>, comp, 0, 0)
        EXCEPT !.tempo_completamento = 0]

\* OrdineDiLavoro.tempo_attraversamento: the test is the truth value of
\* tempo_completamento, which None and 0.0 both fail.
tempo_attraversamento(o) ==
    IF o.tempo_completamento # NON_IMPOSTATO /\ o.tempo_completamento # 0
    THEN o.tempo_completamento - o.tempo_creazione
    ELSE NON_IMPOSTATO

InitCon(configurazioni) ==
    /\ cfg \in configurazioni
    /\ errore = Esito(cfg)
    /\ rng = IF cfg.seme = NON_IMPOSTATO THEN 0 ELSE cfg.seme
    /\ now = 0
    /\ coda = IF post_init(cfg) THEN CodaIniziale(cfg) ELSE <<>>
    /\ attivo = 0
    /\ avviato = FALSE
    /\ proc = <<>>
    /\ ordine = <<>>
    /\ users = [r \in Esistenti(cfg, RisorseCostruite(cfg)) |-> <<>>]
    /\ put_queue = [r \in Esistenti(cfg, RisorseCostruite(cfg)) |-> <<>>]
    /\ risorsa = [r \in Esistenti(cfg, RisorseCostruite(cfg)) |-> RisorsaNuova]
    /\ buffer_scorte = [p \in Esistenti(cfg, TipoProdotto) |-> <<>>]
    /\ magazzino_intermedio = [c \in Esistenti(cfg, Componenti) |-> ScortaIniziale(c, cfg)]
    /\ get_queue = [c \in Esistenti(cfg, Componenti) |-> <<>>]
    /\ giorno_corrente = 0
    /\ produzione_giornaliera_per_prodotto = [p \in TipoProdotto |-> 0]
    /\ produzione_giornaliera_totale = 0
    /\ ordini_completati = <<>>
    /\ richieste = [r \in Esistenti(cfg, RisorseCostruite(cfg)) |-> <<>>]
    /\ concessioni = [r \in Esistenti(cfg, RisorseCostruite(cfg)) |-> <<>>]
    /\ depositi = [c \in Esistenti(cfg, Componenti) |-> ScortaIniziale(c, cfg)]
    /\ prelievi = [c \in Esistenti(cfg, Componenti) |-> <<>>]
    /\ passati = <<>>

-----------------------------------------------------------------------------
(* The batch release and the kernel's step *)

vGiorno == <<giorno_corrente, produzione_giornaliera_per_prodotto,
             produzione_giornaliera_totale, passati>>
vRisorse == <<users, put_queue, richieste, concessioni>>
vMagazzino == <<magazzino_intermedio, get_queue, prelievi>>

\* GestoreScenario._check_material_balance: TRUE when the planned quantities
\* are accepted. The need of each component of the bill of materials is set
\* against the planned quantity of that product plus the stock of its
\* intermediate store, if it has one.
check_material_balance(quantita_pianificate, c) ==
    \A componente \in TipoProdotto :
        LET fabbisogno == quantita_pianificate["RD-01"] * c.distinta_base[componente]
            stock_iniziale == IF componente \in Componenti
                              THEN c.quantita_iniziali[componente] ELSE 0
        IN  quantita_pianificate[componente] + stock_iniziale >= fabbisogno

\* esegui_lotto_stocastico: env.process(_monitoraggio_processo(ordine)) for each
\* order of the batch, before the first step of the run.
\* The order's id, urgency factor and batch offset are three draws of the
\* generator; the last two make its due time.
\* One order of the batch: its due date is drawn from the generator, after the
\* draw of its id and before the draw of its offset.
RilasciaOrdineCon(prod, scad) ==
    /\ errore = ""
    /\ ~avviato
    /\ Len(ordine) < cfg.lotto_ordini
    /\ prod \in cfg.lotto_prodotti
    /\ scad \in Estrazioni(cfg.lotto_scadenze, Dopo(rng, cfg), cfg)
    /\ LET id == Len(ordine) + 1
       IN  /\ ordine' = Append(ordine, OrdineNuovo(id, prod, now, scad))
           /\ proc' = Append(proc, ProcNuovo)
           /\ coda' = Schedula(coda, Evento(now, URGENT, "init", id, ""))
    /\ rng' = Dopo(Dopo(Dopo(rng, cfg), cfg), cfg)
    /\ UNCHANGED <<now, attivo, avviato, cfg, errore, risorsa, buffer_scorte, depositi,
                   ordini_completati, vGiorno, vRisorse, vMagazzino>>

RilasciaOrdine ==
    \E prod \in cfg.lotto_prodotti, scad \in cfg.lotto_scadenze :
        RilasciaOrdineCon(prod, scad)

\* The stepping loop of esegui_lotto_stocastico: it steps, then stops once every
\* order of the batch is completed or the clock is past the horizon.
totale_ordini == Cardinality({p \in 1..Len(ordine) : ~ordine[p].riordino})

ContinuaSenzaOrizzonte ==   \* a loop that does not look at the clock
    \/ ~avviato
    \/ Len(ordini_completati) < totale_ordini

Continua ==
    \/ ~avviato
    \/ (Len(ordini_completati) < totale_ordini /\ now <= cfg.durata_giorni * GIORNO)

\* Environment.step: pop the next event, run its callbacks. The callbacks of a
\* resource or store run first, then the process that yielded the event resumes.
\* The event of a process that ended with an exception has no callback: step
\* raises the exception, and the stepping loop, which catches EmptySchedule
\* only, ends with it.
Passo ==
    /\ errore = ""
    /\ attivo = 0
    /\ coda # <<>>
    /\ Continua
    /\ LET e == Head(coda)
           st0 == [Nucleo EXCEPT !.coda = Tail(coda)]
           st1 == CASE e.tipo = "rel" -> TriggerPut(e.r, st0, e.t)
                    [] e.tipo = "put_m" -> TriggerGet(e.r, st0, e.t)
                    [] OTHER -> st0
       IN  /\ now' = e.t
           /\ attivo' = e.p
           /\ Applica(st1)
           /\ errore' = IF e.tipo = "fallito" /\ e.r = "Routing Sheet"
                         THEN "ValueError: Routing Sheet"
                         ELSE IF e.tipo = "fallito" THEN "ValueError: risorsa umana"
                         ELSE errore
    /\ avviato' = TRUE
    /\ UNCHANGED <<cfg, rng, ordine, risorsa, buffer_scorte, depositi,
                   ordini_completati, vGiorno>>

-----------------------------------------------------------------------------
(* The segments of an order's process, each up to the next yield *)

In(p, pc) == attivo = p /\ proc[p].pc = pc

\* yield self.ambiente.timeout(d)
Timeout(p, d, pc) ==
    /\ coda' = Schedula(coda, Evento(now + d, NORMAL, "timeout", p, ""))
    /\ attivo' = 0
    /\ proc' = [proc EXCEPT ![p].pc = pc]

IncrementaSempre(n) == n   \* a gate that forgets to count

IncrementaContatore(n) == n + 1

\* elabora_ordine: the daily-cap gate (one pass of its loop), then the strategy.
ElaboraOrdine(p) ==
    /\ In(p, "elabora")
    /\ LET id_prodotto == ordine[p].prodotto
           has_limits == cfg.ha_limiti_prodotto
                         \/ cfg.limite_produzione_totale_giornaliera # NON_IMPOSTATO
           giorno_simulazione == now \div GIORNO
           nuovo_giorno == giorno_simulazione > giorno_corrente
           per_prodotto == IF nuovo_giorno THEN [q \in TipoProdotto |-> 0]
                           ELSE produzione_giornaliera_per_prodotto
           totale == IF nuovo_giorno THEN 0 ELSE produzione_giornaliera_totale
           limite_prodotto == IF cfg.ha_limiti_prodotto
                              THEN cfg.limiti_produzione_giornaliera[id_prodotto]
                              ELSE NON_IMPOSTATO
           limite_totale == cfg.limite_produzione_totale_giornaliera
           prodotti_oggi == per_prodotto[id_prodotto]
           saturo == \/ (limite_prodotto # NON_IMPOSTATO /\ prodotti_oggi >= limite_prodotto)
                     \/ (limite_totale # NON_IMPOSTATO /\ totale >= limite_totale)
           tempo_attesa == (GIORNO - (now % GIORNO)) + cfg.orario_inizio_turno * 60 * MILLI
           \* strategia = self.strategie.get(id_prodotto); if not strategia: raise
           \* ValueError: the process ends with the exception and its event is
           \* scheduled.
           instrada == IF Strategia(id_prodotto, cfg) = <<>>
                       THEN /\ proc' = [proc EXCEPT ![p].pc = "fallito"]
                            /\ coda' = Schedula(coda,
                                   Evento(now, NORMAL, "fallito", 0, "Routing Sheet"))
                            /\ attivo' = 0
                       ELSE /\ proc' = [proc EXCEPT
                                   ![p].pc = "ciclo",
                                   ![p].programma = Strategia(id_prodotto, cfg)]
                            /\ UNCHANGED <<coda, attivo>>
       IN  IF ~has_limits
           THEN instrada /\ UNCHANGED vGiorno
           ELSE /\ giorno_corrente' = IF nuovo_giorno THEN giorno_simulazione
                                      ELSE giorno_corrente
                /\ IF saturo
                   THEN /\ Timeout(p, tempo_attesa, "elabora")
                        /\ produzione_giornaliera_per_prodotto' = per_prodotto
                        /\ produzione_giornaliera_totale' = totale
                        /\ UNCHANGED passati
                   ELSE /\ produzione_giornaliera_per_prodotto' =
                               [per_prodotto EXCEPT ![id_prodotto] =
                                                       IncrementaContatore(prodotti_oggi)]
                        /\ produzione_giornaliera_totale' = IncrementaContatore(totale)
                        /\ passati' = Append(passati,
                               [p |-> p, prodotto |-> id_prodotto,
                                giorno |-> giorno_simulazione])
                        /\ instrada
    /\ UNCHANGED <<now, avviato, cfg, errore, rng, ordine, risorsa, buffer_scorte, depositi,
                   ordini_completati, vRisorse, vMagazzino>>

Prossimo(p) == Head(proc[p].programma)

\* esegui_operazione, up to the first shift wait.
IniziaOperazione(p) ==
    /\ In(p, "ciclo")
    /\ Prossimo(p).k = "op"
    /\ proc' = [proc EXCEPT ![p].pc = "attendi", ![p].ret = "richiedi",
                            ![p].priorita = 0,
                            ![p].tempo_riparazione = 0]   \* no breakdown yet
    /\ UNCHANGED <<now, coda, attivo, avviato, cfg, errore, rng, ordine, risorsa, buffer_scorte,
                   depositi, ordini_completati, vGiorno, vRisorse, vMagazzino>>

\* attendi_turno_lavorativo: one pass of its loop.
AttendiTurno(p) ==
    /\ In(p, "attendi")
    /\ LET attesa == AttesaTurno(now, cfg)
           prima == proc[p].giri = 0
           chiamata == IF prima THEN now ELSE proc[p].chiamata
           attese == IF prima THEN <<>> ELSE proc[p].attese
       IN  IF attesa # 0
           THEN /\ coda' = Schedula(coda, Evento(now + attesa, NORMAL, "timeout", p, ""))
                /\ attivo' = 0
                /\ proc' = [proc EXCEPT ![p].chiamata = chiamata,
                                        ![p].attese = Append(attese, attesa),
                                        ![p].giri = @ + 1]
           ELSE /\ proc' = [proc EXCEPT ![p].pc = proc[p].ret,
                                        ![p].chiamata = chiamata,
                                        ![p].attese = attese,
                                        ![p].giri = 0]
                /\ UNCHANGED <<coda, attivo>>
    /\ UNCHANGED <<now, avviato, cfg, errore, rng, ordine, risorsa, buffer_scorte, depositi,
                   ordini_completati, vGiorno, vRisorse, vMagazzino>>

\* The priority of esegui_operazione: int(durata_min) under SPT, int(scadenza)
\* under EDD (0 when the due time is 0), 0 under FIFO.
Priorita(politica, durata_min, scadenza) ==
    CASE politica = "SPT" -> durata_min \div MILLI
      [] politica = "EDD" -> IF scadenza # 0 THEN scadenza \div MILLI ELSE 0
      [] OTHER -> 0

\* with macchina.richiedi_accesso(priorita=priorita) as req_macchina: yield
RichiediMacchina(p) ==
    /\ In(p, "richiedi")
    /\ LET priorita == Priorita(cfg.politica, Prossimo(p).durata, ordine[p].scadenza)
           st0 == [Nucleo EXCEPT !.proc[p].priorita = priorita,
                                 !.proc[p].pc = "acquisita"]
       IN  Applica(richiedi_accesso(Prossimo(p).macchina, p, priorita,
                                    Prossimo(p).durata, st0, now))
    /\ attivo' = 0
    /\ UNCHANGED <<now, avviato, cfg, errore, rng, ordine, risorsa, buffer_scorte, depositi,
                   ordini_completati, vGiorno>>

Lanci == {0, 500}   \* rng.random(), per mille: one low and one middle draw

SetupSempre(ultimo_prodotto, prodotto) == TRUE   \* a setup before every operation

\* The setup test of esegui_operazione.
RichiedeSetup(ultimo_prodotto, prodotto) ==
    ultimo_prodotto # NESSUNO /\ ultimo_prodotto # prodotto

\* After the machine is granted: the setup test, and the setup's timeout.
Acquisita(p) ==
    /\ In(p, "acquisita")
    /\ LET m == Prossimo(p).macchina
           tempo_setup == cfg.tempo_setup_minuti
           voce(setup) == Operazione(p, ordine[p].prodotto, risorsa[m].ultimo_completato,
                                     risorsa[m].ultimo_prodotto, setup)
       IN  IF RichiedeSetup(risorsa[m].ultimo_prodotto, ordine[p].prodotto)
              /\ tempo_setup > 0
           THEN /\ Timeout(p, tempo_setup, "setup")
                /\ risorsa' = [risorsa EXCEPT
                       ![m].operazioni = Append(@, voce("in corso"))]
           ELSE /\ risorsa' = [risorsa EXCEPT
                       ![m].ultimo_prodotto = ordine[p].prodotto,
                       ![m].operazioni = Append(@, voce("no"))]
                /\ proc' = [proc EXCEPT ![p].pc = "attendi", ![p].ret = "guasto"]
                /\ UNCHANGED <<coda, attivo>>
    /\ UNCHANGED <<now, avviato, cfg, errore, rng, ordine, buffer_scorte, depositi,
                   ordini_completati, vGiorno, vRisorse, vMagazzino>>

\* After the setup's timeout: the setup is recorded and logged.
SetupFatto(p) ==
    /\ In(p, "setup")
    /\ LET m == Prossimo(p).macchina
           tempo_setup == cfg.tempo_setup_minuti
           r1 == registra_tempo_utilizzo(risorsa[m], tempo_setup, "setup")
       IN  risorsa' = [risorsa EXCEPT ![m] =
               [r1 EXCEPT !.log_eventi =
                              Append(@, VoceLog("setup", now - tempo_setup, now, 0)),
                          !.ultimo_prodotto = ordine[p].prodotto,
                          !.operazioni[UltimaDi(risorsa[m].operazioni, p)].setup = "si"]]
    /\ proc' = [proc EXCEPT ![p].pc = "attendi", ![p].ret = "guasto"]
    /\ UNCHANGED <<now, coda, attivo, avviato, cfg, errore, rng, ordine, buffer_scorte, depositi,
                   ordini_completati, vGiorno, vRisorse, vMagazzino>>

\* rng.randint(minuti_riparazione_min, minuti_riparazione_max): the two ends.
Riparazioni(c) == {c.minuti_riparazione_min, c.minuti_riparazione_max}

\* A breakdown that gives the machine back for the time of the repair.
GuastoConRilascio(p, lancio, rip) ==
    /\ In(p, "guasto")
    /\ lancio \in Estrazioni(Lanci, rng, cfg)
    /\ IF lancio < cfg.probabilita_guasto
       THEN /\ rip \in Estrazioni(Riparazioni(cfg), Dopo(rng, cfg), cfg)
            /\ Applica(release(Prossimo(p).macchina, p,
                   [Nucleo EXCEPT !.proc[p].pc = "avanza",
                                  !.proc[p].dopo = "riparato",
                                  !.proc[p].tempo_riparazione = rip * MILLI,
                                  !.proc[p].residuo = rip * MILLI], now))
            /\ rng' = Dopo(Dopo(rng, cfg), cfg)
       ELSE /\ rip = cfg.minuti_riparazione_min
            /\ proc' = [proc EXCEPT ![p].pc = "operatore"]
            /\ rng' = Dopo(rng, cfg)
            /\ UNCHANGED <<coda, vRisorse, vMagazzino>>
    /\ UNCHANGED <<now, attivo, avviato, cfg, errore, ordine, risorsa, buffer_scorte,
                   depositi, ordini_completati, vGiorno>>

\* The breakdown roll, and the draw of the repair time.
GuastoCon(p, lancio, rip) ==
    /\ In(p, "guasto")
    /\ lancio \in Estrazioni(Lanci, rng, cfg)
    /\ IF lancio < cfg.probabilita_guasto
       THEN /\ rip \in Estrazioni(Riparazioni(cfg), Dopo(rng, cfg), cfg)
            /\ proc' = [proc EXCEPT ![p].pc = "avanza",
                                    ![p].dopo = "riparato",
                                    ![p].tempo_riparazione = rip * MILLI,
                                    ![p].residuo = rip * MILLI]
            /\ rng' = Dopo(Dopo(rng, cfg), cfg)
       ELSE /\ rip = cfg.minuti_riparazione_min   \* no repair time is drawn
            /\ proc' = [proc EXCEPT ![p].pc = "operatore"]
            /\ rng' = Dopo(rng, cfg)
    /\ UNCHANGED <<now, coda, attivo, avviato, cfg, errore, ordine, risorsa, buffer_scorte,
                   depositi, ordini_completati, vGiorno, vRisorse, vMagazzino>>

Guasto(p) ==
    \E lancio \in Lanci, rip \in Riparazioni(cfg) : GuastoCon(p, lancio, rip)

\* avanza_tempo_lavorativo: the head of its loop.
Avanza(p) ==
    /\ In(p, "avanza")
    /\ proc' = [proc EXCEPT ![p].pc = IF proc[p].residuo > 0 THEN "attendi"
                                      ELSE proc[p].dopo,
                            ![p].ret = "consuma"]
    /\ UNCHANGED <<now, coda, attivo, avviato, cfg, errore, rng, ordine, risorsa, buffer_scorte,
                   depositi, ordini_completati, vGiorno, vRisorse, vMagazzino>>

\* avanza_tempo_lavorativo: the chunk consumed inside the shift.
Consuma(p) ==
    /\ In(p, "consuma")
    /\ LET minuti_giornalieri == now % GIORNO
           tempo_residuo_turno == cfg.orario_fine_turno * 60 * MILLI - minuti_giornalieri
           dt == Min(proc[p].residuo, tempo_residuo_turno)
       IN  IF tempo_residuo_turno <= 0
           THEN /\ proc' = [proc EXCEPT ![p].pc = "attendi", ![p].ret = "avanza"]
                /\ UNCHANGED <<coda, attivo>>
           ELSE /\ coda' = Schedula(coda, Evento(now + dt, NORMAL, "timeout", p, ""))
                /\ attivo' = 0
                /\ proc' = [proc EXCEPT ![p].pc = "avanza", ![p].residuo = @ - dt]
    /\ UNCHANGED <<now, avviato, cfg, errore, rng, ordine, risorsa, buffer_scorte, depositi,
                   ordini_completati, vGiorno, vRisorse, vMagazzino>>

\* After the repair: the breakdown is recorded and logged.
Riparato(p) ==
    /\ In(p, "riparato")
    /\ LET m == Prossimo(p).macchina
           rip == proc[p].tempo_riparazione
           r1 == registra_tempo_utilizzo(risorsa[m], rip, "guasto")
       IN  risorsa' = [risorsa EXCEPT ![m] =
               [r1 EXCEPT !.log_eventi = Append(@, VoceLog("guasto", now - rip, now, 0))]]
    /\ proc' = [proc EXCEPT ![p].pc = "operatore"]
    /\ UNCHANGED <<now, coda, attivo, avviato, cfg, errore, rng, ordine, buffer_scorte, depositi,
                   ordini_completati, vGiorno, vRisorse, vMagazzino>>

\* if tipo_operatore: the operator is requested with the machine's priority.
RichiediOperatore(p) ==
    /\ In(p, "operatore")
    /\ LET tipo == IF Prossimo(p).operatore # NESSUNO /\ Prossimo(p).vincolo
                   THEN "Tecnico Specializzato" ELSE Prossimo(p).operatore
       IN  IF tipo # NESSUNO /\ tipo \notin DOMAIN users
           THEN \* KeyError, raised as ValueError inside the machine's with
                \* block: the block's exit releases the machine, the process
                \* ends and its event is scheduled.
                /\ LET st0 == EsceConErrore(Prossimo(p).macchina, p,
                                  [Nucleo EXCEPT !.proc[p].pc = "fallito"], now)
                   IN  Applica([st0 EXCEPT !.coda =
                           Schedula(@, Evento(now, NORMAL, "fallito", 0, ""))])
                /\ attivo' = 0
           ELSE IF tipo # NESSUNO
           THEN /\ Applica(richiedi_accesso(tipo, p, proc[p].priorita,
                       Prossimo(p).durata,
                       [Nucleo EXCEPT !.proc[p].operatore = tipo,
                                      !.proc[p].pc = "attendi",
                                      !.proc[p].ret = "lavora"], now))
                /\ attivo' = 0
           ELSE /\ proc' = [proc EXCEPT ![p].operatore = NESSUNO, ![p].pc = "lavora"]
                /\ UNCHANGED <<coda, attivo, vRisorse, vMagazzino>>
    /\ UNCHANGED <<now, avviato, cfg, errore, rng, ordine, risorsa, buffer_scorte, depositi,
                   ordini_completati, vGiorno>>

\* rng.uniform(1 - v, 1 + v), per cent: the two ends and the middle.
Fattori(v) == {100 - v, 100, 100 + v}

\* durata_effettiva and the processing timeout.
LavoraCon(p, f) ==
    /\ In(p, "lavora")
    /\ f \in Estrazioni(Fattori(cfg.fattore_variabilita_processo), rng, cfg)
    /\ LET durata_effettiva == Max(1, (Prossimo(p).durata * f) \div 100)
       IN  /\ coda' = Schedula(coda,
                  Evento(now + durata_effettiva, NORMAL, "timeout", p, ""))
           /\ proc' = [proc EXCEPT ![p].pc = "lavorato",
                                   ![p].durata_effettiva = durata_effettiva]
    /\ rng' = Dopo(rng, cfg)
    /\ attivo' = 0
    /\ UNCHANGED <<now, avviato, cfg, errore, ordine, risorsa, buffer_scorte, depositi,
                   ordini_completati, vGiorno, vRisorse, vMagazzino>>

Lavora(p) ==
    \E f \in Fattori(cfg.fattore_variabilita_processo) : LavoraCon(p, f)

\* After the processing timeout: usage recorded, operator released, the
\* operation logged on the machine and on the order, machine released.
Lavorato(p) ==
    /\ In(p, "lavorato")
    /\ LET m == Prossimo(p).macchina
           o == proc[p].operatore
           d == proc[p].durata_effettiva
           voce == VoceLog("lavorazione", now - d, now, ordine[p].id)
           st0 == [Nucleo EXCEPT !.proc[p].pc = "ciclo",
                                 !.proc[p].programma = Tail(@)]
           st1 == IF o # NESSUNO THEN release(o, p, st0, now) ELSE st0
       IN  /\ risorsa' = [r \in Risorse |->
                  IF r = m
                  THEN [registra_tempo_utilizzo(risorsa[r], d, "lavorazione")
                           EXCEPT !.log_eventi = Append(@, voce),
                                  !.ultimo_completato = ordine[p].prodotto]
                  ELSE IF r = o
                  THEN registra_tempo_utilizzo(risorsa[r], d, "lavorazione")
                  ELSE risorsa[r]]
           /\ ordine' = [ordine EXCEPT
                  ![p].cronologia_fasi = Append(@, m),
                  ![p].log_lavorazioni = Append(@,
                      [fase |-> m, durata |-> d, operatore |-> o,
                       inizio |-> now - d, fine |-> now])]
           /\ Applica(release(m, p, st1, now))
    /\ UNCHANGED <<now, attivo, avviato, cfg, errore, rng, buffer_scorte, depositi,
                   ordini_completati, vGiorno>>

\* StrategiaRD01: comp = yield magazzino_intermedio[...].get()
Preleva(p) ==
    /\ In(p, "ciclo")
    /\ Prossimo(p).k = "get"
    /\ LET c == Prossimo(p).macchina
           st0 == [Nucleo EXCEPT !.get_queue[c] = Append(@, p),
                                 !.proc[p].pc = "prelevato"]
       IN  Applica(TriggerGet(c, st0, now))
    /\ attivo' = 0
    /\ UNCHANGED <<now, avviato, cfg, errore, rng, ordine, risorsa, buffer_scorte, depositi,
                   ordini_completati, vGiorno>>

\* ordine.componenti_consumati.append(comp)
Prelevato(p) ==
    /\ In(p, "prelevato")
    /\ ordine' = [ordine EXCEPT ![p].componenti_consumati = Append(@, proc[p].comp)]
    /\ proc' = [proc EXCEPT ![p].pc = "ciclo", ![p].programma = Tail(@)]
    /\ UNCHANGED <<now, coda, attivo, avviato, cfg, errore, rng, risorsa, buffer_scorte, depositi,
                   ordini_completati, vGiorno, vRisorse, vMagazzino>>

\* _gestisci_rilavorazione: the rework roll.
RilavorazioneCon(p, lancio) ==
    /\ In(p, "ciclo")
    /\ Prossimo(p).k = "rilav"
    /\ lancio \in Estrazioni(Lanci, rng, cfg)
    /\ proc' = [proc EXCEPT ![p].programma =
                   IF lancio < cfg.probabilita_rifacimento
                   THEN PassiRilavorazione(ordine[p].prodotto, cfg) \o Tail(@)
                   ELSE Tail(@)]
    /\ rng' = Dopo(rng, cfg)
    /\ UNCHANGED <<now, coda, attivo, avviato, cfg, errore, ordine, risorsa, buffer_scorte,
                   depositi, ordini_completati, vGiorno, vRisorse, vMagazzino>>

Rilavorazione(p) == \E lancio \in Lanci : RilavorazioneCon(p, lancio)

\* yield buffer_scorte[prod].put(ordine)
DepositaScorte(p) ==
    /\ In(p, "ciclo")
    /\ Prossimo(p).k = "put_s"
    /\ LET prod == ordine[p].prodotto
       IN  /\ buffer_scorte' = [buffer_scorte EXCEPT
                                   ![prod] = Append(@, Articolo(FALSE, prod, p))]
           /\ coda' = Schedula(coda, Evento(now, NORMAL, "put_s", p, prod))
    /\ attivo' = 0
    /\ proc' = [proc EXCEPT ![p].pc = "ciclo", ![p].programma = Tail(@)]
    /\ UNCHANGED <<now, avviato, cfg, errore, rng, ordine, risorsa, depositi,
                   ordini_completati, vGiorno, vRisorse, vMagazzino>>

\* yield magazzino_intermedio[prod].put(ordine)
DepositaIntermedio(p) ==
    /\ In(p, "ciclo")
    /\ Prossimo(p).k = "put_m"
    /\ LET prod == ordine[p].prodotto
           x == Articolo(FALSE, prod, p)
       IN  /\ magazzino_intermedio' = [magazzino_intermedio EXCEPT ![prod] = Append(@, x)]
           /\ depositi' = [depositi EXCEPT ![prod] = Append(@, x)]
           /\ coda' = Schedula(coda, Evento(now, NORMAL, "put_m", p, prod))
    /\ attivo' = 0
    /\ proc' = [proc EXCEPT ![p].pc = "ciclo", ![p].programma = Tail(@)]
    /\ UNCHANGED <<now, avviato, cfg, errore, rng, ordine, risorsa, buffer_scorte,
                   ordini_completati, vGiorno, vRisorse, get_queue, prelievi>>

CompletaSenzaTempo(p) ==   \* an order recorded as completed, never stamped
    /\ In(p, "ciclo")
    /\ Prossimo(p).k = "fine"
    /\ ordini_completati' = Append(ordini_completati, p)
    /\ proc' = [proc EXCEPT ![p].pc = "terminato", ![p].programma = <<>>]
    /\ attivo' = 0
    /\ UNCHANGED <<now, coda, avviato, cfg, errore, rng, ordine, risorsa, buffer_scorte, depositi,
                   vGiorno, vRisorse, vMagazzino>>

\* ordine.tempo_completamento = now; then _monitoraggio_processo records the
\* order and the process ends. An order of the monitor runs elabora_ordine
\* without that wrapper and is not recorded.
Completa(p) ==
    /\ In(p, "ciclo")
    /\ Prossimo(p).k = "fine"
    /\ ordine' = [ordine EXCEPT ![p].tempo_completamento = now]
    /\ ordini_completati' = IF ordine[p].riordino THEN ordini_completati
                             ELSE Append(ordini_completati, p)
    /\ proc' = [proc EXCEPT ![p].pc = "terminato", ![p].programma = <<>>]
    /\ attivo' = 0
    /\ UNCHANGED <<now, coda, avviato, cfg, errore, rng, risorsa, buffer_scorte, depositi,
                   vGiorno, vRisorse, vMagazzino>>

\* for prod_type, store in self.buffer_scorte.items(): the buffers in the
\* order of their creation, that of TipoProdotto.
OrdineProdotti == << "FL-01", "PN-03", "IN-07", "RD-01" >>

\* eoq_quantities.get(prod_type, 10)
QuantitaRiordino(c, prod) ==
    IF c.lotto_riordino_standard[prod] = NON_IMPOSTATO THEN 10
    ELSE c.lotto_riordino_standard[prod]

QuantitaSeNonSotto(c, prod, livello) ==   \* a monitor that reorders at the reorder point
    IF c.livelli_scorta_minima[prod] # NON_IMPOSTATO
       /\ livello <= c.livelli_scorta_minima[prod]
    THEN QuantitaRiordino(c, prod) ELSE 0

\* How many orders one pass of the monitor issues for prod at stock livello.
QuantitaDaOrdinare(c, prod, livello) ==
    IF c.livelli_scorta_minima[prod] # NON_IMPOSTATO
       /\ livello < c.livelli_scorta_minima[prod]
    THEN QuantitaRiordino(c, prod) ELSE 0

\* The products of the orders one pass of the monitor issues, in order.
RECURSIVE Riordini(_, _, _)
Riordini(c, scorte, k) ==
    IF k > Len(OrdineProdotti) THEN <<>>
    ELSE LET prod == OrdineProdotti[k]
         IN  [i \in 1..QuantitaDaOrdinare(c, prod, Len(scorte[prod])) |-> prod]
             \o Riordini(c, scorte, k + 1)

\* heappush of each event of es, which have one time and one priority: the
\* first lands after every event that is not later, each other after the one
\* pushed before it.
SchedulaTutti(q, es) ==
    IF es = <<>> THEN q
    ELSE LET prima == {i \in 1..Len(q) :
                          q[i].t < es[1].t \/ (q[i].t = es[1].t /\ q[i].pr <= es[1].pr)}
             k == Cardinality(prima)
         IN  SubSeq(q, 1, k) \o es \o SubSeq(q, k + 1, Len(q))

\* monitor_scorte: one pass of its loop, from the wake-up of its timeout to
\* the next timeout. The process starts at time 0 and first sleeps 60
\* minutes; every later wake-up (at a positive time) examines the buffers,
\* then starts a process of elabora_ordine for each order it creates.
MonitorScorte ==
    /\ attivo = MONITOR
    /\ LET nuovi == IF now = 0 THEN <<>> ELSE Riordini(cfg, buffer_scorte, 1)
           n == Len(ordine)
       IN  /\ ordine' = ordine \o
                  [i \in 1..Len(nuovi) |->
                      [OrdineNuovo(n + i, nuovi[i], now, now + 2880 * MILLI)
                          EXCEPT !.riordino = TRUE]]
           /\ proc' = proc \o [i \in 1..Len(nuovi) |-> ProcNuovo]
           /\ coda' = Schedula(
                  SchedulaTutti(coda,
                      [i \in 1..Len(nuovi) |-> Evento(now, URGENT, "init", n + i, "")]),
                  Evento(now + 60 * MILLI, NORMAL, "timeout", MONITOR, ""))
    /\ attivo' = 0
    /\ UNCHANGED <<now, avviato, cfg, errore, rng, risorsa, buffer_scorte, depositi,
                   ordini_completati, vGiorno, vRisorse, vMagazzino>>

\* yield self.ambiente.timeout(d), in a process that calls the calendar.
Ritarda(p) ==
    /\ In(p, "ciclo")
    /\ Prossimo(p).k = "ritardo"
    /\ coda' = Schedula(coda, Evento(now + Prossimo(p).durata, NORMAL, "timeout", p, ""))
    /\ attivo' = 0
    /\ proc' = [proc EXCEPT ![p].programma = Tail(@)]
    /\ UNCHANGED <<now, avviato, cfg, errore, rng, ordine, risorsa, buffer_scorte, depositi,
                   ordini_completati, vGiorno, vRisorse, vMagazzino>>

\* yield from gestore_turni.attendi_turno_lavorativo(configurazione)
ChiamaAttendiTurno(p) ==
    /\ In(p, "ciclo")
    /\ Prossimo(p).k = "attendi"
    /\ proc' = [proc EXCEPT ![p].pc = "attendi", ![p].ret = "ritorno"]
    /\ UNCHANGED <<now, coda, attivo, avviato, cfg, errore, rng, ordine, risorsa, buffer_scorte,
                   depositi, ordini_completati, vGiorno, vRisorse, vMagazzino>>

\* yield from gestore_turni.avanza_tempo_lavorativo(durata_minuti, configurazione)
ChiamaAvanza(p) ==
    /\ In(p, "ciclo")
    /\ Prossimo(p).k = "avanza"
    /\ proc' = [proc EXCEPT ![p].pc = "avanza", ![p].dopo = "ritorno",
                            ![p].residuo = Prossimo(p).durata]
    /\ UNCHANGED <<now, coda, attivo, avviato, cfg, errore, rng, ordine, risorsa, buffer_scorte,
                   depositi, ordini_completati, vGiorno, vRisorse, vMagazzino>>

\* The call of the calendar has returned to its caller.
Ritorna(p) ==
    /\ In(p, "ritorno")
    /\ proc' = [proc EXCEPT ![p].pc = "ciclo", ![p].programma = Tail(@)]
    /\ UNCHANGED <<now, coda, attivo, avviato, cfg, errore, rng, ordine, risorsa, buffer_scorte,
                   depositi, ordini_completati, vGiorno, vRisorse, vMagazzino>>

-----------------------------------------------------------------------------
(* Specifications *)

Next ==
    \/ RilasciaOrdine
    \/ Passo
    \/ \E p \in 1..Len(proc) : ElaboraOrdine(p)
    \/ \E p \in 1..Len(proc) : IniziaOperazione(p)
    \/ \E p \in 1..Len(proc) : AttendiTurno(p)
    \/ \E p \in 1..Len(proc) : RichiediMacchina(p)
    \/ \E p \in 1..Len(proc) : Acquisita(p)
    \/ \E p \in 1..Len(proc) : SetupFatto(p)
    \/ \E p \in 1..Len(proc) : Guasto(p)
    \/ \E p \in 1..Len(proc) : Avanza(p)
    \/ \E p \in 1..Len(proc) : Consuma(p)
    \/ \E p \in 1..Len(proc) : Riparato(p)
    \/ \E p \in 1..Len(proc) : RichiediOperatore(p)
    \/ \E p \in 1..Len(proc) : Lavora(p)
    \/ \E p \in 1..Len(proc) : Lavorato(p)
    \/ \E p \in 1..Len(proc) : Preleva(p)
    \/ \E p \in 1..Len(proc) : Prelevato(p)
    \/ \E p \in 1..Len(proc) : Rilavorazione(p)
    \/ \E p \in 1..Len(proc) : DepositaScorte(p)
    \/ \E p \in 1..Len(proc) : DepositaIntermedio(p)
    \/ \E p \in 1..Len(proc) : Completa(p)

\* The job shop of the base configuration: under each policy and capacity
\* table with the stochastic events off, and with breakdowns and rework on for
\* batches of one product.
Configurazioni ==
    {[ConfigurazioneBase EXCEPT !.probabilita_guasto = 0,
                                !.probabilita_rifacimento = 0,
                                !.politica = pol,
                                !.capacita = cap] :
        pol \in PoliticaSchedulazione, cap \in {CapacitaBase, CapacitaUno}}
    \cup {[ConfigurazioneBase EXCEPT !.probabilita_rifacimento = 0,
                                     !.minuti_riparazione_max = 60,
                                     !.lotto_prodotti = {"FL-01"},
                                     !.lotto_ordini = MaxOrdiniGuasti],
          [ConfigurazioneBase EXCEPT !.probabilita_guasto = 0,
                                     !.lotto_prodotti = {"PN-03", "IN-07"},
                                     !.lotto_ordini = MaxOrdiniGuasti]}

Init == InitCon(Configurazioni)

Spec == Init /\ [][Next]_vars

\* Single-operation orders on the capacity-1 Forno, no operator step, no setup,
\* no variability, no breakdown, the shift open round the clock (time 0, when the
\* batch is released, is inside it). The unit durations are 10, 5 and 5.5 minutes;
\* the due times of the EDD batches are 0, 5, 10 and 10.5 minutes.
TempiSingola ==
    [TempiBase EXCEPT !["Forno"] =
        [p \in TipoProdotto |->
            CASE p = "FL-01" -> 10 * MILLI
              [] p = "PN-03" -> 5 * MILLI
              [] p = "IN-07" -> 5500
              [] OTHER -> 0]]

ConfigurazioneSingola ==
    [ConfigurazioneBase EXCEPT !.strategie = "singola",
                               !.tempi_lavorazione = TempiSingola,
                               !.tempo_setup_minuti = 0,
                               !.probabilita_guasto = 0,
                               !.probabilita_rifacimento = 0,
                               !.orario_inizio_turno = 0,
                               !.orario_fine_turno = 24,
                               !.lotto_prodotti = {"FL-01", "PN-03", "IN-07"}]

\* The same shop behind the daily-cap gate: one FL-01 a day, or two orders a day.
ConfigurazioniLimiti ==
    {[ConfigurazioneSingola EXCEPT
         !.ha_limiti_prodotto = TRUE,
         !.limiti_produzione_giornaliera = [@ EXCEPT !["FL-01"] = 1],
         !.lotto_prodotti = {"FL-01", "PN-03"}],
     [ConfigurazioneSingola EXCEPT
         !.limite_produzione_totale_giornaliera = 2,
         !.orario_inizio_turno = 8,
         !.orario_fine_turno = 17,
         !.lotto_prodotti = {"FL-01", "PN-03"}],
     [ConfigurazioneSingola EXCEPT
         !.ha_limiti_prodotto = TRUE,
         !.limiti_produzione_giornaliera = [@ EXCEPT !["PN-03"] = 2],
         !.limite_produzione_totale_giornaliera = 1,
         !.lotto_prodotti = {"PN-03"}]}

ConfigurazioniSingola ==
    {[ConfigurazioneSingola EXCEPT !.politica = "SPT"],
     [ConfigurazioneSingola EXCEPT !.politica = "EDD",
                                   !.lotto_prodotti = {"IN-07"},
                                   !.lotto_scadenze = {0, 5 * MILLI, 10 * MILLI, 10500}]}
    \cup ConfigurazioniLimiti

InitSingola == InitCon(ConfigurazioniSingola)

\* The steps such a run can take.
NextSingola ==
    \/ RilasciaOrdine
    \/ Passo
    \/ \E p \in 1..Len(proc) : ElaboraOrdine(p)
    \/ \E p \in 1..Len(proc) : IniziaOperazione(p)
    \/ \E p \in 1..Len(proc) : AttendiTurno(p)
    \/ \E p \in 1..Len(proc) : RichiediMacchina(p)
    \/ \E p \in 1..Len(proc) : Acquisita(p)
    \/ \E p \in 1..Len(proc) : Guasto(p)
    \/ \E p \in 1..Len(proc) : RichiediOperatore(p)
    \/ \E p \in 1..Len(proc) : Lavora(p)
    \/ \E p \in 1..Len(proc) : Lavorato(p)
    \/ \E p \in 1..Len(proc) : Completa(p)

SpecSingola == InitSingola /\ [][NextSingola]_vars

\* A week of the gate: one order a day is let in, the shift is 08:00-17:00,
\* and the batch holds an order for every day of the week; the run is cut a
\* day after the week has ended.
ConfigurazioniSettimana ==
    {[ConfigurazioneSingola EXCEPT
         !.limite_produzione_totale_giornaliera = 1,
         !.orario_inizio_turno = 8,
         !.orario_fine_turno = 17,
         !.lotto_prodotti = {"FL-01", "PN-03"},
         !.lotto_ordini = MaxOrdiniSettimana,
         !.durata_giorni = MaxGiorni + 1]}

SpecSettimana == InitCon(ConfigurazioniSettimana) /\ [][NextSingola]_vars

\* The batch run with the stochastic events off and an initial stock of one
\* item in each intermediate store; the stepping loop goes on for as long as
\* an event is left.
ConfigurazioniLotto ==
    {[ConfigurazioneBase EXCEPT !.probabilita_guasto = 0,
                                !.probabilita_rifacimento = 0,
                                !.quantita_iniziali =
                                    [c \in Componenti |->
                                        IF c = "FL-01" THEN QtaInizialeFL
                                        ELSE QtaInizialeScarsa]]}

InitLotto == InitCon(ConfigurazioniLotto)

NextLotto ==
    \/ RilasciaOrdine
    \/ Passo
    \/ \E p \in 1..Len(proc) : ElaboraOrdine(p)
    \/ \E p \in 1..Len(proc) : IniziaOperazione(p)
    \/ \E p \in 1..Len(proc) : AttendiTurno(p)
    \/ \E p \in 1..Len(proc) : RichiediMacchina(p)
    \/ \E p \in 1..Len(proc) : Acquisita(p)
    \/ \E p \in 1..Len(proc) : SetupFatto(p)
    \/ \E p \in 1..Len(proc) : Guasto(p)
    \/ \E p \in 1..Len(proc) : RichiediOperatore(p)
    \/ \E p \in 1..Len(proc) : Lavora(p)
    \/ \E p \in 1..Len(proc) : Lavorato(p)
    \/ \E p \in 1..Len(proc) : Preleva(p)
    \/ \E p \in 1..Len(proc) : Prelevato(p)
    \/ \E p \in 1..Len(proc) : Rilavorazione(p)
    \/ \E p \in 1..Len(proc) : DepositaScorte(p)
    \/ \E p \in 1..Len(proc) : DepositaIntermedio(p)
    \/ \E p \in 1..Len(proc) : Completa(p)

SpecLotto == InitLotto /\ [][NextLotto]_vars /\ WF_vars(NextLotto)

\* Seeded runs: the job shop of the base configuration with every stochastic
\* event on, under each seed of Semi, for each batch of up to MaxOrdiniGuasti
\* orders.
Semi == {1, 4, 9, 18}

ConfigurazioniSeme ==
    {[ConfigurazioneBase EXCEPT !.seme = s,
                                !.politica = "EDD",
                                !.fattore_variabilita_processo = 10,
                                !.minuti_riparazione_max = 120,
                                !.lotto_scadenze = {1440 * MILLI, 2880 * MILLI},
                                !.lotto_ordini = MaxOrdiniGuasti] :
        s \in Semi}

InitSeme == InitCon(ConfigurazioniSeme)

SpecSeme == InitSeme /\ [][Next]_vars

\* The job shop with one unit of every resource, breakdowns on and rework off,
\* for batches of FL-01 and PN-03 orders: the orders contend for each machine
\* and operator, and a change of product on a machine takes a setup.
ConfigurazioniGuasti ==
    {[ConfigurazioneBase EXCEPT !.capacita = CapacitaUno,
                                !.probabilita_rifacimento = 0,
                                !.minuti_riparazione_max = 60,
                                !.lotto_prodotti = {"FL-01", "PN-03"},
                                !.lotto_ordini = MaxOrdiniGuasti]}

InitGuasti == InitCon(ConfigurazioniGuasti)

NextGuasti ==
    \/ RilasciaOrdine
    \/ Passo
    \/ \E p \in 1..Len(proc) : ElaboraOrdine(p)
    \/ \E p \in 1..Len(proc) : IniziaOperazione(p)
    \/ \E p \in 1..Len(proc) : AttendiTurno(p)
    \/ \E p \in 1..Len(proc) : RichiediMacchina(p)
    \/ \E p \in 1..Len(proc) : Acquisita(p)
    \/ \E p \in 1..Len(proc) : SetupFatto(p)
    \/ \E p \in 1..Len(proc) : Guasto(p)
    \/ \E p \in 1..Len(proc) : Avanza(p)
    \/ \E p \in 1..Len(proc) : Consuma(p)
    \/ \E p \in 1..Len(proc) : Riparato(p)
    \/ \E p \in 1..Len(proc) : RichiediOperatore(p)
    \/ \E p \in 1..Len(proc) : Lavora(p)
    \/ \E p \in 1..Len(proc) : Lavorato(p)
    \/ \E p \in 1..Len(proc) : Rilavorazione(p)
    \/ \E p \in 1..Len(proc) : DepositaScorte(p)
    \/ \E p \in 1..Len(proc) : DepositaIntermedio(p)
    \/ \E p \in 1..Len(proc) : Completa(p)

SpecGuasti == InitGuasti /\ [][NextGuasti]_vars

\* The same shop under every seed of the generator and under the stepping
\* loop's fairness: the loop steps for as long as an event is left, an order is
\* open and the horizon is not passed.
SemiContesa == 0..31

ConfigurazioniContesa ==
    {[c EXCEPT !.seme = s] : c \in ConfigurazioniGuasti, s \in SemiContesa}

InitContesa == InitCon(ConfigurazioniContesa)

SpecContesa == InitContesa /\ [][NextGuasti]_vars /\ WF_vars(NextGuasti)

\* The job shop with one unit of every resource, behind a daily cap of two
\* orders, with a PN-03 routing that names an unknown operator type and too
\* little IN-07 in stock for one RD-01 order.
ConfigurazioniRilascio ==
    {[ConfigurazioneBase EXCEPT !.strategie = "ignoto",
                                !.capacita = CapacitaUno,
                                !.probabilita_guasto = 0,
                                !.probabilita_rifacimento = 0,
                                !.limite_produzione_totale_giornaliera = 2,
                                !.quantita_iniziali =
                                    [c \in Componenti |->
                                        IF c = "FL-01" THEN QtaInizialeFL
                                        ELSE QtaInizialeScarsa],
                                !.lotto_prodotti = {"FL-01", "PN-03", "RD-01"}]}

InitRilascio == InitCon(ConfigurazioniRilascio)

NextRilascio ==
    \/ RilasciaOrdine
    \/ Passo
    \/ \E p \in 1..Len(proc) : ElaboraOrdine(p)
    \/ \E p \in 1..Len(proc) : IniziaOperazione(p)
    \/ \E p \in 1..Len(proc) : AttendiTurno(p)
    \/ \E p \in 1..Len(proc) : RichiediMacchina(p)
    \/ \E p \in 1..Len(proc) : Acquisita(p)
    \/ \E p \in 1..Len(proc) : SetupFatto(p)
    \/ \E p \in 1..Len(proc) : Guasto(p)
    \/ \E p \in 1..Len(proc) : RichiediOperatore(p)
    \/ \E p \in 1..Len(proc) : Lavora(p)
    \/ \E p \in 1..Len(proc) : Lavorato(p)
    \/ \E p \in 1..Len(proc) : Preleva(p)
    \/ \E p \in 1..Len(proc) : Prelevato(p)
    \/ \E p \in 1..Len(proc) : DepositaScorte(p)
    \/ \E p \in 1..Len(proc) : DepositaIntermedio(p)
    \/ \E p \in 1..Len(proc) : Completa(p)

SpecRilascio == InitRilascio /\ [][NextRilascio]_vars

\* Batches of FL-01 and RD-01 orders behind a daily cap of three orders, with
\* the stochastic events off, under the stepping loop's fairness: the orders
\* the cap holds back pass the gate together on the next day.
ConfigurazioniAssemblaggio ==
    {[ConfigurazioneBase EXCEPT !.probabilita_guasto = 0,
                                !.probabilita_rifacimento = 0,
                                !.limite_produzione_totale_giornaliera = 3,
                                !.lotto_prodotti = {"FL-01", "RD-01"},
                                !.lotto_ordini = MaxOrdiniAssemblaggio]}

InitAssemblaggio == InitCon(ConfigurazioniAssemblaggio)

NextAssemblaggio ==
    \/ RilasciaOrdine
    \/ Passo
    \/ \E p \in 1..Len(proc) : ElaboraOrdine(p)
    \/ \E p \in 1..Len(proc) : IniziaOperazione(p)
    \/ \E p \in 1..Len(proc) : AttendiTurno(p)
    \/ \E p \in 1..Len(proc) : RichiediMacchina(p)
    \/ \E p \in 1..Len(proc) : Acquisita(p)
    \/ \E p \in 1..Len(proc) : Guasto(p)
    \/ \E p \in 1..Len(proc) : RichiediOperatore(p)
    \/ \E p \in 1..Len(proc) : Lavora(p)
    \/ \E p \in 1..Len(proc) : Lavorato(p)
    \/ \E p \in 1..Len(proc) : Preleva(p)
    \/ \E p \in 1..Len(proc) : Prelevato(p)
    \/ \E p \in 1..Len(proc) : DepositaScorte(p)
    \/ \E p \in 1..Len(proc) : DepositaIntermedio(p)
    \/ \E p \in 1..Len(proc) : Completa(p)

SpecAssemblaggio ==
    InitAssemblaggio /\ [][NextAssemblaggio]_vars /\ WF_vars(NextAssemblaggio)

\* The one-unit job shop on a one-hour shift (08:00 to 09:00), rework off, with
\* a setup of 15 or of 55 minutes, processing times that vary by a tenth (so
\* that operations end between two minutes) and repairs of half a shift or of
\* a whole one: with a shift this short the setups, the repairs and the
\* operations of a batch of FL-01 and PN-03 orders come up against the shift's
\* close. The runs are seeded, under every seed of the generator.
ConfigurazioniTurni ==
    {[ConfigurazioneBase EXCEPT !.capacita = CapacitaUno,
                                !.probabilita_rifacimento = 0,
                                !.fattore_variabilita_processo = 10,
                                !.minuti_riparazione_min = 30,
                                !.minuti_riparazione_max = 60,
                                !.orario_fine_turno = 9,
                                !.tempo_setup_minuti = s * MILLI,
                                !.lotto_prodotti = {"FL-01", "PN-03"},
                                !.seme = x,
                                !.lotto_ordini = MaxOrdiniGuasti]
        : s \in {15, 55}, x \in SemiContesa}

InitTurni == InitCon(ConfigurazioniTurni)

NextTurni ==
    \/ RilasciaOrdine
    \/ Passo
    \/ \E p \in 1..Len(proc) : ElaboraOrdine(p)
    \/ \E p \in 1..Len(proc) : IniziaOperazione(p)
    \/ \E p \in 1..Len(proc) : AttendiTurno(p)
    \/ \E p \in 1..Len(proc) : RichiediMacchina(p)
    \/ \E p \in 1..Len(proc) : Acquisita(p)
    \/ \E p \in 1..Len(proc) : SetupFatto(p)
    \/ \E p \in 1..Len(proc) : Guasto(p)
    \/ \E p \in 1..Len(proc) : Avanza(p)
    \/ \E p \in 1..Len(proc) : Consuma(p)
    \/ \E p \in 1..Len(proc) : Riparato(p)
    \/ \E p \in 1..Len(proc) : RichiediOperatore(p)
    \/ \E p \in 1..Len(proc) : Lavora(p)
    \/ \E p \in 1..Len(proc) : Lavorato(p)
    \/ \E p \in 1..Len(proc) : Rilavorazione(p)
    \/ \E p \in 1..Len(proc) : DepositaScorte(p)
    \/ \E p \in 1..Len(proc) : DepositaIntermedio(p)
    \/ \E p \in 1..Len(proc) : Completa(p)

SpecTurni == InitTurni /\ [][NextTurni]_vars

\* The shop with the replenishment monitor on, every stochastic event off: a
\* reorder point of 1 for FL-01 with a reorder quantity of 1 or left unset,
\* and reorder points of 2 for FL-01 and 1 for PN-03 with a reorder quantity
\* of 2; IN-07 and RD-01 have no reorder point. The component store of IN-07 is
\* empty, so an RD-01 order of the batch blocks and the run goes on to its
\* horizon while the monitor keeps waking up. In the last configuration the
\* shop is behind a daily cap of five orders and is given no strategy for
\* FL-01, the product the monitor reorders.
ConfigurazioniScorte ==
    {[ConfigurazioneBase EXCEPT
         !.probabilita_guasto = 0,
         !.probabilita_rifacimento = 0,
         !.livelli_scorta_minima = [p \in TipoProdotto |->
             CASE p = "FL-01" -> rop
               [] p = "PN-03" -> rop_pn
               [] OTHER -> NON_IMPOSTATO],
         !.lotto_riordino_standard = [p \in TipoProdotto |->
             IF p \in {"FL-01", "PN-03"} THEN eoq ELSE NON_IMPOSTATO],
         !.quantita_iniziali = [c \in Componenti |->
             IF c = "FL-01" THEN QtaInizialeFL ELSE 0],
         !.strategie = cicli,
         !.limite_produzione_totale_giornaliera = limite,
         !.lotto_prodotti = {"PN-03", "RD-01"},
         !.lotto_ordini = MaxOrdiniGuasti,
         !.durata_giorni = MaxGiorniScorte] :
        <<rop, rop_pn, eoq, cicli, limite>> \in
            {<<1, NON_IMPOSTATO, 1, "cicli", NON_IMPOSTATO>>,
             <<1, NON_IMPOSTATO, NON_IMPOSTATO, "cicli", NON_IMPOSTATO>>,
             <<2, 1, 2, "cicli", NON_IMPOSTATO>>,
             <<1, NON_IMPOSTATO, 1, "senza FL-01", 5>>}}

InitScorte == InitCon(ConfigurazioniScorte)

NextScorte ==
    \/ RilasciaOrdine
    \/ Passo
    \/ MonitorScorte
    \/ \E p \in 1..Len(proc) : ElaboraOrdine(p)
    \/ \E p \in 1..Len(proc) : IniziaOperazione(p)
    \/ \E p \in 1..Len(proc) : AttendiTurno(p)
    \/ \E p \in 1..Len(proc) : RichiediMacchina(p)
    \/ \E p \in 1..Len(proc) : Acquisita(p)
    \/ \E p \in 1..Len(proc) : SetupFatto(p)
    \/ \E p \in 1..Len(proc) : Guasto(p)
    \/ \E p \in 1..Len(proc) : RichiediOperatore(p)
    \/ \E p \in 1..Len(proc) : Lavora(p)
    \/ \E p \in 1..Len(proc) : Lavorato(p)
    \/ \E p \in 1..Len(proc) : Preleva(p)
    \/ \E p \in 1..Len(proc) : Prelevato(p)
    \/ \E p \in 1..Len(proc) : Rilavorazione(p)
    \/ \E p \in 1..Len(proc) : DepositaScorte(p)
    \/ \E p \in 1..Len(proc) : DepositaIntermedio(p)
    \/ \E p \in 1..Len(proc) : Completa(p)

SpecScorte == InitScorte /\ [][NextScorte]_vars

\* The runs with a reorder quantity of 1 under the stepping loop's fairness:
\* while the loop has not stopped, ambiente.step() is called again and the
\* resumed process runs to its next yield.
SpecScorteCiclo ==
    /\ InitCon({c \in ConfigurazioniScorte : c.lotto_riordino_standard["FL-01"] = 1})
    /\ [][NextScorte]_vars
    /\ WF_vars(NextScorte)

\* Constructions that succeed and constructions that raise: the single-operation
\* shop with a capacity of 0 or -1 for the first, a middle or the last resource
\* built, and with probabilities at and beyond the ends of [0, 1] (per mille).
CapacitaCostruzione ==
    {CapacitaBase}
    \cup {[CapacitaBase EXCEPT ![r] = k] :
              r \in {"Troncatrice", "Forno", "Tecnico Specializzato"}, k \in {0, -1}}

ConfigurazioniCostruzione ==
    {[ConfigurazioneSingola EXCEPT !.capacita = cap,
                                   !.lotto_ordini = MaxOrdiniGuasti] :
        cap \in CapacitaCostruzione}
    \cup {[ConfigurazioneSingola EXCEPT !.probabilita_rifacimento = pr,
                                        !.lotto_ordini = MaxOrdiniGuasti] :
              pr \in {-1, 1000, 1001}}
    \cup {[ConfigurazioneSingola EXCEPT !.probabilita_guasto = pg,
                                        !.minuti_riparazione_max = 60,
                                        !.lotto_ordini = MaxOrdiniGuasti] :
              pg \in {-200, 1000, 1500}}

InitCostruzione == InitCon(ConfigurazioniCostruzione)

NextCostruzione ==
    \/ RilasciaOrdine
    \/ Passo
    \/ \E p \in 1..Len(proc) : ElaboraOrdine(p)
    \/ \E p \in 1..Len(proc) : IniziaOperazione(p)
    \/ \E p \in 1..Len(proc) : AttendiTurno(p)
    \/ \E p \in 1..Len(proc) : RichiediMacchina(p)
    \/ \E p \in 1..Len(proc) : Acquisita(p)
    \/ \E p \in 1..Len(proc) : Guasto(p)
    \/ \E p \in 1..Len(proc) : Avanza(p)
    \/ \E p \in 1..Len(proc) : Consuma(p)
    \/ \E p \in 1..Len(proc) : Riparato(p)
    \/ \E p \in 1..Len(proc) : RichiediOperatore(p)
    \/ \E p \in 1..Len(proc) : Lavora(p)
    \/ \E p \in 1..Len(proc) : Lavorato(p)
    \/ \E p \in 1..Len(proc) : Completa(p)

SpecCostruzione == InitCostruzione /\ [][NextCostruzione]_vars

\* One process that calls the shift calendar at a chosen clock reading. The
\* readings are given as (day, minute of the day, thousandths): day 0 is the
\* Monday of the epoch, days 5 and 6 its Saturday and Sunday.
Istante(giorno, minuti, millesimi) == giorno * GIORNO + minuti * MILLI + millesimi

IstantiCalendario ==
    { Istante(0, 0, 0), Istante(0, 479, 400), Istante(0, 479, 500),
      Istante(0, 480, 0), Istante(0, 720, 0), Istante(0, 1019, 600),
      Istante(0, 1020, 0), Istante(3, 1439, 600), Istante(4, 960, 0),
      Istante(4, 1020, 0), Istante(4, 1439, 600),
      Istante(5, 0, 0), Istante(5, 0, 500), Istante(5, 630, 0),
      Istante(6, 720, 250), Istante(6, 1439, 950) }

\* (orario_inizio_turno, orario_fine_turno): day shifts, the round-the-clock
\* shift, and hours the configuration accepts although no shift lies between
\* them.
TurniCalendario == { <<8, 17>>, <<6, 22>>, <<0, 24>>, <<17, 8>>, <<8, 8>>, <<22, 6>> }

DurateCalendario == { 0, 60 * MILLI, 600 * MILLI }

ConfigurazioniCalendario ==
    {[ConfigurazioneBase EXCEPT !.strategie = "chiamante",
                                !.orario_inizio_turno = turno[1],
                                !.orario_fine_turno = turno[2],
                                !.istante = t,
                                !.durata_avanza = d,
                                !.lotto_ordini = 1,
                                !.lotto_prodotti = {"FL-01"},
                                !.durata_giorni = MaxGiorniCalendario] :
        turno \in TurniCalendario, t \in IstantiCalendario, d \in DurateCalendario}

InitCalendario == InitCon(ConfigurazioniCalendario)

NextCalendario ==
    \/ RilasciaOrdine
    \/ Passo
    \/ \E p \in 1..Len(proc) : ElaboraOrdine(p)
    \/ \E p \in 1..Len(proc) : Ritarda(p)
    \/ \E p \in 1..Len(proc) : ChiamaAttendiTurno(p)
    \/ \E p \in 1..Len(proc) : ChiamaAvanza(p)
    \/ \E p \in 1..Len(proc) : AttendiTurno(p)
    \/ \E p \in 1..Len(proc) : Avanza(p)
    \/ \E p \in 1..Len(proc) : Consuma(p)
    \/ \E p \in 1..Len(proc) : Ritorna(p)
    \/ \E p \in 1..Len(proc) : Completa(p)

SpecCalendario == InitCalendario /\ [][NextCalendario]_vars

-----------------------------------------------------------------------------
(* Properties *)

Posizione(s, x) == CHOOSE i \in 1..Len(s) : s[i] = x
Concessa(r, x) == \E i \in 1..Len(concessioni[r]) : concessioni[r][i] = x
ConcessaPrima(r, a, b) ==
    Concessa(r, a) /\ Concessa(r, b)
    /\ Posizione(concessioni[r], a) < Posizione(concessioni[r], b)

\* C1: at every instant of a run, on every machine and every operator pool, the
\* operations that hold a unit (granted, not yet released) are at most as many
\* as the resource's capacity.
C1_CapacitaRispettata ==
    \A r \in Risorse : Len(users[r]) <= cfg.capacita[r]

\* A resource whose units are all held while a request waits for one.
C1_Conteso ==
    \E r \in Risorse : Len(users[r]) = cfg.capacita[r] /\ put_queue[r] # <<>>

\* The pairs the priority law speaks of: on a capacity-1 resource, a request of
\* priority 5 and one of priority 10 issued at the same instant.
CoppieCinqueDieci(r) ==
    {ab \in (1..Len(richieste[r])) \X (1..Len(richieste[r])) :
        /\ cfg.capacita[r] = 1
        /\ richieste[r][ab[1]].priorita = 5
        /\ richieste[r][ab[2]].priorita = 10
        /\ richieste[r][ab[1]].t = richieste[r][ab[2]].t}

\* C2, as stated: on a capacity-1 resource, of a priority-5 and a priority-10
\* request issued at the same instant the priority-5 one is granted first, in
\* either arrival order, the resource free or busy.
C2_CinquePrimaSempre ==
    \A r \in Risorse : \A ab \in CoppieCinqueDieci(r) :
        LET a == richieste[r][ab[1]]
            b == richieste[r][ab[2]]
        IN  Concessa(r, b) => ConcessaPrima(r, a, b)

\* C2, amended: the priority-5 request is granted first if it is issued first,
\* or if the priority-10 request is still waiting when it is issued (otherwise
\* the priority-10 request has its unit before the priority-5 one exists).
C2_CinquePrimaSeInAttesa ==
    \A r \in Risorse : \A ab \in CoppieCinqueDieci(r) :
        LET a == richieste[r][ab[1]]
            b == richieste[r][ab[2]]
            ancora_in_attesa == Posizione(concessioni[r], b) > a.concessi
        IN  (Concessa(r, b) /\ (a.n < b.n \/ ancora_in_attesa))
               => ConcessaPrima(r, a, b)

\* The priority-10 request arrived first at a busy resource and was overtaken.
C2_Sorpasso ==
    \E r \in Risorse : \E ab \in CoppieCinqueDieci(r) :
        LET a == richieste[r][ab[1]]
            b == richieste[r][ab[2]]
        IN  b.n < a.n /\ b.occupati = 1 /\ ConcessaPrima(r, a, b)

\* C3: requests of equal priority on a resource are granted in their arrival
\* order; under FIFO, where every priority is 0, each resource grants in exactly
\* the order of the requests.
C3_ArrivoDecideAParita ==
    \A r \in Risorse :
        /\ \A i, j \in 1..Len(concessioni[r]) :
              (i < j /\ concessioni[r][i].priorita = concessioni[r][j].priorita)
                 => concessioni[r][i].n < concessioni[r][j].n
        /\ \A i \in 1..Len(put_queue[r]) : \A j \in 1..Len(concessioni[r]) :
              put_queue[r][i].priorita = concessioni[r][j].priorita
                 => concessioni[r][j].n < put_queue[r][i].n
        /\ cfg.politica = "FIFO" =>
              concessioni[r] = SubSeq(richieste[r], 1, Len(concessioni[r]))

\* Under FIFO two requests waited together on a resource and both were served.
C3_DueInAttesa ==
    /\ cfg.politica = "FIFO"
    /\ \E r \in Risorse : \E i, j \in 1..Len(concessioni[r]) :
          /\ i < j
          /\ concessioni[r][i].occupati = cfg.capacita[r]
          /\ concessioni[r][j].concessi < i

\* The scenario of the SPT example: exactly two orders released together, their
\* single operations of 10 (FL-01) and 5 (PN-03) minutes, no daily cap.
ScenarioDieciCinque(i, j) ==
    /\ cfg.politica = "SPT" /\ cfg.strategie = "singola"
    /\ ~cfg.ha_limiti_prodotto
    /\ cfg.limite_produzione_totale_giornaliera = NON_IMPOSTATO
    /\ avviato /\ Len(ordine) = 2 /\ {i, j} = {1, 2}
    /\ ordine[i].prodotto = "FL-01" /\ ordine[j].prodotto = "PN-03"
    /\ ordine[i].tempo_completamento # NON_IMPOSTATO
    /\ ordine[j].tempo_completamento # NON_IMPOSTATO

\* C4, as stated: the 10-minute order finishes at t+15 and the 5-minute order
\* at t+5, whichever of the two was released first.
C4_QuindiciECinque ==
    \A i, j \in 1..Len(ordine) :
        ScenarioDieciCinque(i, j) =>
            /\ ordine[i].tempo_completamento = ordine[i].tempo_creazione + 15 * MILLI
            /\ ordine[j].tempo_completamento = ordine[j].tempo_creazione + 5 * MILLI

\* C4, amended: t+15 and t+5 when the 5-minute order is released first; t+10 and
\* t+15 (the 5-minute order last) when the 10-minute order is released first.
C4_PrimoRilasciatoPrimoServito ==
    \A i, j \in 1..Len(ordine) :
        ScenarioDieciCinque(i, j) =>
            /\ ordine[i].tempo_completamento =
                  ordine[i].tempo_creazione + (IF j < i THEN 15 ELSE 10) * MILLI
            /\ ordine[j].tempo_completamento =
                  ordine[j].tempo_creazione + (IF j < i THEN 5 ELSE 15) * MILLI

\* Both orders are done and the 10-minute one, released first, ended first.
C4_DieciRilasciatoPrimo ==
    ScenarioDieciCinque(1, 2)
    /\ ordine[1].tempo_completamento < ordine[2].tempo_completamento

\* C5, as stated: of two requests waiting in the same queue, under SPT the one of
\* strictly shorter base duration and under EDD the one of strictly earlier due
\* time is granted first, whatever the values; and an operation asks for its
\* operator with the priority of its machine request.
C5_SenzaPerdita ==
    /\ \A r \in Risorse : \A i \in 1..Len(concessioni[r]) : \A j \in 1..Len(richieste[r]) :
          LET a == concessioni[r][i]
              b == richieste[r][j]
              in_attesa_insieme ==
                  /\ a.occupati >= cfg.capacita[r]
                  /\ b.concessi < i
                  /\ \A k \in 1..i : concessioni[r][k] # b
          IN  in_attesa_insieme =>
                 /\ cfg.politica = "SPT" => ~(b.durata < a.durata)
                 /\ cfg.politica = "EDD" =>
                       ~(ordine[b.p].scadenza < ordine[a.p].scadenza)
    /\ \A r \in TipoOperatore : \A i \in 1..Len(richieste[r]) :
          richieste[r][i].priorita =
             Priorita(cfg.politica, richieste[r][i].durata,
                      ordine[richieste[r][i].p].scadenza)

LimiteProdotto(prod) ==
    IF cfg.ha_limiti_prodotto THEN cfg.limiti_produzione_giornaliera[prod]
    ELSE NON_IMPOSTATO

PassatiNelGiorno(d) == {i \in 1..Len(passati) : passati[i].giorno = d}

\* C7: in every day d = floor(now/1440) the orders of a product that pass the
\* daily-cap gate are at most the product's cap, and the orders of all products
\* at most the global cap; an order is past the gate only if it was counted.
C7_LimitiGiornalieri ==
    /\ \A i \in 1..Len(passati) :
          LET d == passati[i].giorno
              prod == passati[i].prodotto
              del_prodotto == {k \in PassatiNelGiorno(d) : passati[k].prodotto = prod}
          IN  /\ LimiteProdotto(prod) # NON_IMPOSTATO =>
                    Cardinality(del_prodotto) <= LimiteProdotto(prod)
              /\ cfg.limite_produzione_totale_giornaliera # NON_IMPOSTATO =>
                    Cardinality(PassatiNelGiorno(d))
                       <= cfg.limite_produzione_totale_giornaliera
    /\ (cfg.ha_limiti_prodotto
        \/ cfg.limite_produzione_totale_giornaliera # NON_IMPOSTATO) =>
          \A p \in 1..Len(proc) :
              proc[p].pc # "elabora" =>
                 Cardinality({i \in 1..Len(passati) : passati[i].p = p}) = 1

\* A day's cap was reached and an order of the same batch passed on a later day.
C7_RinviatoAlGiornoDopo ==
    \E i, j \in 1..Len(passati) :
        /\ passati[i].giorno < passati[j].giorno
        /\ \/ Cardinality(PassatiNelGiorno(passati[i].giorno))
                 = cfg.limite_produzione_totale_giornaliera
           \/ Cardinality({k \in PassatiNelGiorno(passati[i].giorno) :
                              passati[k].prodotto = passati[j].prodotto})
                 = LimiteProdotto(passati[j].prodotto)

InCoda(tipo, p, r) ==
    \E i \in 1..Len(coda) : coda[i].tipo = tipo /\ coda[i].p = p /\ coda[i].r = r

HaEventi(p) == \E i \in 1..Len(coda) : coda[i].p = p

\* C6: the buffers are FIFO: what was got from a buffer, followed by what is
\* still in it, is what was put into it, in the order of the puts (so each get
\* returned the oldest item present); a finished-goods buffer, from which the
\* code never gets, holds each order put into it once; a process that is waiting
\* on a get stays at its get with no event of its own, and the buffer is empty
\* unless a put has just been made and its event is still to be processed.
C6_BufferFIFO ==
    /\ \A c \in Componenti : prelievi[c] \o magazzino_intermedio[c] = depositi[c]
    /\ \A prod \in TipoProdotto :
          \A i, j \in 1..Len(buffer_scorte[prod]) :
              /\ buffer_scorte[prod][i].prodotto = prod
              /\ i # j => buffer_scorte[prod][i] # buffer_scorte[prod][j]
    /\ \A c \in Componenti : \A i \in 1..Len(get_queue[c]) :
          LET p == get_queue[c][i]
          IN  proc[p].pc = "prelevato" /\ attivo # p /\ ~HaEventi(p)
    /\ \A c \in Componenti :
          (get_queue[c] # <<>> /\ magazzino_intermedio[c] # <<>>)
             => \E p \in 1..Len(proc) : InCoda("put_m", p, c)

\* A get returned an item that an order of the batch had put, after the initial
\* stock had been got in its order.
C6_PrelevatoDalProdotto ==
    \E c \in Componenti : \E i \in 1..Len(prelievi[c]) :
        i > 1 /\ ~prelievi[c][i].stock /\ prelievi[c][1].stock

Consumati(p, c) ==
    {i \in 1..Len(ordine[p].componenti_consumati) :
        ordine[p].componenti_consumati[i].prodotto = c}

HaPrelevatoTutto(p) ==
    /\ proc[p].pc \notin {"elabora", "prelevato"}
    /\ \A i \in 1..Len(proc[p].programma) : proc[p].programma[i].k # "get"

\* C8, as stated: an RD-01 order withdraws exactly the quantity the configured
\* bill of materials (distinta_base) lists for each component, and nothing else.
C8_SecondoDistintaBase ==
    \A p \in 1..Len(ordine) :
        (ordine[p].prodotto = "RD-01" /\ HaPrelevatoTutto(p)) =>
            \A c \in TipoProdotto :
                Cardinality(Consumati(p, c)) = cfg.distinta_base[c]

\* C9: an RD-01 order asks for the Banco Assemblaggio only with the whole set its
\* routing withdraws (one FL-01, two IN-07) in hand; while a buffer has no stock
\* for it, it stays at the get, with no timeout and no operation done; and each
\* component in its list was got from the intermediate buffer of that component.
C9_PrelievoCompleto ==
    \A p \in 1..Len(ordine) : ordine[p].prodotto = "RD-01" =>
        /\ (\E r \in Risorse : \E i \in 1..Len(richieste[r]) : richieste[r][i].p = p)
              => /\ Len(ordine[p].componenti_consumati) = 3
                 /\ Cardinality(Consumati(p, "FL-01")) = 1
                 /\ Cardinality(Consumati(p, "IN-07")) = 2
        /\ ordine[p].cronologia_fasi # <<>> =>
              Len(ordine[p].componenti_consumati) = 3
        /\ \A c \in Componenti :
              (\E i \in 1..Len(get_queue[c]) : get_queue[c][i] = p) =>
                  /\ proc[p].pc = "prelevato" /\ ~HaEventi(p)
                  /\ ordine[p].cronologia_fasi = <<>>
                  /\ Len(ordine[p].componenti_consumati) < 3
        /\ \A i \in 1..Len(ordine[p].componenti_consumati) :
              LET x == ordine[p].componenti_consumati[i]
              IN  x.prodotto \in Componenti
                  /\ \E k \in 1..Len(prelievi[x.prodotto]) : prelievi[x.prodotto][k] = x

\* An RD-01 order that had to wait for a component of the batch reached the
\* Banco Assemblaggio.
C9_AssemblatoDopoAttesa ==
    \E p \in 1..Len(ordine) :
        /\ ordine[p].prodotto = "RD-01"
        /\ ordine[p].cronologia_fasi # <<>>
        /\ \E i \in 1..Len(ordine[p].componenti_consumati) :
              ~ordine[p].componenti_consumati[i].stock

\* C10, as stated: on every machine, whatever its capacity, an operation records
\* a setup exactly when the operation that last completed on the machine before
\* it was of another product.
C10_SetupSeCambiaProdotto ==
    \A m \in TipoMacchinario : \A i \in 1..Len(risorsa[m].operazioni) :
        LET o == risorsa[m].operazioni[i]
        IN  (o.setup # "in corso" /\ cfg.tempo_setup_minuti > 0) =>
               (o.setup = "si" <=> (o.precedente # NESSUNO /\ o.precedente # o.prodotto))

\* C10, amended: that holds on the machines of capacity 1, where consecutive
\* operations of one product never add a setup; on every machine the setup is
\* recorded exactly when the machine's last-product marker, read when the
\* operation is granted the machine, names another product.
C10_SetupSecondoMarcatore ==
    \A m \in TipoMacchinario : \A i \in 1..Len(risorsa[m].operazioni) :
        LET o == risorsa[m].operazioni[i]
        IN  (o.setup # "in corso" /\ cfg.tempo_setup_minuti > 0) =>
               /\ o.setup = "si" <=> (o.marcatore # NESSUNO /\ o.marcatore # o.prodotto)
               /\ cfg.capacita[m] = 1 =>
                     /\ o.marcatore = o.precedente
                     /\ o.setup = "si" <=>
                           (o.precedente # NESSUNO /\ o.precedente # o.prodotto)
                     /\ (i > 1 /\ risorsa[m].operazioni[i - 1].prodotto = o.prodotto)
                           => o.setup = "no"

\* On a capacity-1 machine a changeover was set up and the next operation, of
\* the same product, was not.
C10_CambioPoiStessoProdotto ==
    \E m \in TipoMacchinario : \E i \in 2..Len(risorsa[m].operazioni) :
        /\ cfg.capacita[m] = 1
        /\ risorsa[m].operazioni[i - 1].setup = "si"
        /\ risorsa[m].operazioni[i].setup = "no"
        /\ risorsa[m].operazioni[i].precedente = risorsa[m].operazioni[i].prodotto

-----------------------------------------------------------------------------
(* The shift calendar *)

\* The run of a caller that made its call at clock reading t, under shift hours
\* inizio to fine, asking to work d ticks (0: it called attendi_turno_lavorativo).
CasoCalendario(inizio, fine, t, d) ==
    /\ cfg.strategie = "chiamante"
    /\ cfg.orario_inizio_turno = inizio /\ cfg.orario_fine_turno = fine
    /\ cfg.istante = t /\ cfg.durata_avanza = d

\* The call has returned: the caller ends at the instant of the return.
Ritornato(p) == ordine[p].tempo_completamento # NON_IMPOSTATO

\* C11, as stated: with shift hours 08:00-17:00 and a Monday epoch,
\* avanza_tempo_lavorativo(600) called at minute 0 returns at minute 1500.
C11_RitornoA1500 ==
    CasoCalendario(8, 17, 0, 600 * MILLI) =>
        \A p \in 1..Len(ordine) :
            Ritornato(p) => ordine[p].tempo_completamento = 1500 * MILLI

\* C11, amended: with shift hours 08:00-17:00 and a Monday epoch,
\* avanza_tempo_lavorativo(600) called at minute 0 returns at minute 1980: 480
\* minutes idle until the shift opens, 540 worked on day 1, 900 idle, 60 worked
\* on day 2. Called at the shift's opening (minute 480) it returns at the same
\* minute, 1500 minutes after the call.
C11_RitornoA1980 ==
    (CasoCalendario(8, 17, 0, 600 * MILLI)
     \/ CasoCalendario(8, 17, Istante(0, 480, 0), 600 * MILLI)) =>
        \A p \in 1..Len(ordine) :
            Ritornato(p) => ordine[p].tempo_completamento = 1980 * MILLI

\* The call made at minute 0 has returned.
C11_RitornatoDaZero ==
    /\ CasoCalendario(8, 17, 0, 600 * MILLI)
    /\ Len(ordine) = 1 /\ Ritornato(1)
    /\ ordine[1].tempo_completamento = 1980 * MILLI

RECURSIVE Somma(_)
Somma(s) == IF s = <<>> THEN 0 ELSE Head(s) + Somma(Tail(s))

\* 08:00 (the shift's opening) of the first Monday after clock reading t.
LunediApertura(t, c) ==
    ((t \div (7 * GIORNO)) + 1) * 7 * GIORNO + c.orario_inizio_turno * 60 * MILLI

\* p's last call of attendi_turno_lavorativo was made on a Saturday or a Sunday.
ChiamataNelFineSettimana(p) ==
    proc[p].chiamata # NON_IMPOSTATO /\ (proc[p].chiamata \div GIORNO) % 7 \in {5, 6}

\* That call has returned.
TurnoRitornato(p) == proc[p].chiamata # NON_IMPOSTATO /\ proc[p].giri = 0

C13_PochiGiri ==
    \A p \in 1..Len(proc) : Len(proc[p].attese) <= 5

-----------------------------------------------------------------------------
(* Work orders *)

\* The OrdineDiLavoro behind an item of a store.
OrdineDi(x) == IF x.stock THEN OrdineScorta(x.prodotto, x.n) ELSE ordine[x.n]

\* The work orders of a run are the orders of the batch and the orders of the
\* items ever put in an intermediate store.
CompletatoDopoCreato(o) ==
    o.tempo_completamento # NON_IMPOSTATO => o.tempo_completamento > o.tempo_creazione

\* C15: every work order whose completion time is set has a completion time
\* strictly greater than its creation time.
C15_CompletatoDopoCreato ==
    /\ \A i \in 1..Len(ordine) : CompletatoDopoCreato(ordine[i])
    /\ \A c \in Componenti : \A i \in 1..Len(depositi[c]) :
           CompletatoDopoCreato(OrdineDi(depositi[c][i]))

AttraversamentoCoerente(o) ==
    /\ o.tempo_completamento # NON_IMPOSTATO =>
           tempo_attraversamento(o) = o.tempo_completamento - o.tempo_creazione
    /\ tempo_attraversamento(o) = NON_IMPOSTATO <=> o.tempo_completamento = NON_IMPOSTATO

\* C16: for every work order whose completion time is set, tempo_attraversamento
\* equals completion time minus creation time; it is None exactly while the
\* completion time is unset.
C16_AttraversamentoCoerente ==
    /\ \A i \in 1..Len(ordine) : AttraversamentoCoerente(ordine[i])
    /\ \A c \in Componenti : \A i \in 1..Len(depositi[c]) :
           AttraversamentoCoerente(OrdineDi(depositi[c][i]))

\* The routing of p has no operation left to run or to roll for.
CicloFinito(p) ==
    /\ proc[p].pc \in {"ciclo", "terminato"}
    /\ \A i \in 1..Len(proc[p].programma) :
           proc[p].programma[i].k \in {"put_s", "put_m", "fine"}

UltimaFine(p) == ordine[p].log_lavorazioni[Len(ordine[p].log_lavorazioni)].fine

CompletamentoCoerente(p) ==
    /\ ordine[p].tempo_completamento # NON_IMPOSTATO =>
           /\ proc[p].pc = "terminato"
           /\ ordine[p].log_lavorazioni # <<>>
           /\ ordine[p].tempo_completamento = UltimaFine(p)
    /\ (CicloFinito(p) /\ ordine[p].log_lavorazioni # <<>>) => now >= UltimaFine(p)
    /\ (CicloFinito(p) /\ ordine[p].log_lavorazioni # <<>> /\ now > UltimaFine(p)) =>
           ordine[p].tempo_completamento = UltimaFine(p)
    /\ (\E i \in 1..Len(ordini_completati) : ordini_completati[i] = p) =>
           ordine[p].tempo_completamento # NON_IMPOSTATO

-----------------------------------------------------------------------------
(* Material balance *)

\* The quantities of the batch, per product.
QuantitaPianificate ==
    [q \in TipoProdotto |-> Cardinality({i \in 1..Len(ordine) : ordine[i].prodotto = q})]

\* C18: if _check_material_balance accepts the planned quantities of a batch,
\* then in the run of that batch every RD-01 order eventually withdraws all of
\* its components: none stays blocked forever on a get.
C18_NessunBloccoPerSempre ==
    (avviato /\ check_material_balance(QuantitaPianificate, cfg))
        ~> (\A p \in 1..Len(ordine) :
               ordine[p].prodotto = "RD-01" => HaPrelevatoTutto(p))

-----------------------------------------------------------------------------
(* Construction errors *)

\* C19: a resource of capacity below 1 is never built: its construction raises.
\* When any configured machine or operator capacity is zero or negative the
\* construction of SistemaProduttivo ends with an error, and no process is
\* ever started.
C19_CapacitaRifiutata ==
    /\ \A r \in DOMAIN risorsa : cfg.capacita[r] >= 1
    /\ (\E r \in Risorse : cfg.capacita[r] < 1) =>
           /\ errore # ""
           /\ DOMAIN risorsa # Risorse
           /\ proc = <<>> /\ attivo = 0 /\ ~avviato

\* The construction has raised on the Forno, after building the machines that
\* come before it.
C19_FallitaSulForno ==
    /\ cfg.capacita["Forno"] = 0
    /\ errore = "ValueError: capacita"
    /\ DOMAIN risorsa = {"Troncatrice", "Trapano", "Tornio", "Fresa", "Rettifica"}

\* C20: a configuration in which the rework probability or the breakdown
\* probability lies outside [0, 1] is rejected with an error at construction
\* time, so no run executes with an out-of-range probability.
C20_ProbabilitaNeiLimiti ==
    (errore = "" \/ avviato) =>
        /\ 0 <= cfg.probabilita_rifacimento /\ cfg.probabilita_rifacimento <= 1000
        /\ 0 <= cfg.probabilita_guasto /\ cfg.probabilita_guasto <= 1000

-----------------------------------------------------------------------------
(* C14: a seeded run is a function of seed, configuration and batch *)

Se(b, x) == IF b THEN {x} ELSE {}

\* The steps the run can take next, other than releasing one more order: the
\* kernel's step, each segment of each process, and each value of each draw.
PassiAbilitati ==
    Se(ENABLED Passo, <<"Passo">>)
    \cup UNION { Se(ENABLED ElaboraOrdine(p), <<"ElaboraOrdine", p>>)
                 \cup Se(ENABLED IniziaOperazione(p), <<"IniziaOperazione", p>>)
                 \cup Se(ENABLED AttendiTurno(p), <<"AttendiTurno", p>>)
                 \cup Se(ENABLED RichiediMacchina(p), <<"RichiediMacchina", p>>)
                 \cup Se(ENABLED Acquisita(p), <<"Acquisita", p>>)
                 \cup Se(ENABLED SetupFatto(p), <<"SetupFatto", p>>)
                 \cup Se(ENABLED Avanza(p), <<"Avanza", p>>)
                 \cup Se(ENABLED Consuma(p), <<"Consuma", p>>)
                 \cup Se(ENABLED Riparato(p), <<"Riparato", p>>)
                 \cup Se(ENABLED RichiediOperatore(p), <<"RichiediOperatore", p>>)
                 \cup Se(ENABLED Lavorato(p), <<"Lavorato", p>>)
                 \cup Se(ENABLED Preleva(p), <<"Preleva", p>>)
                 \cup Se(ENABLED Prelevato(p), <<"Prelevato", p>>)
                 \cup Se(ENABLED DepositaScorte(p), <<"DepositaScorte", p>>)
                 \cup Se(ENABLED DepositaIntermedio(p), <<"DepositaIntermedio", p>>)
                 \cup Se(ENABLED Completa(p), <<"Completa", p>>)
                 \cup { <<"Guasto", p, x[1], x[2]>> :
                            x \in {y \in Lanci \X Riparazioni(cfg) :
                                       ENABLED GuastoCon(p, y[1], y[2])} }
                 \cup { <<"Lavora", p, f>> :
                            f \in {g \in Fattori(cfg.fattore_variabilita_processo) :
                                       ENABLED LavoraCon(p, g)} }
                 \cup { <<"Rilavorazione", p, lancio>> :
                            lancio \in {l \in Lanci : ENABLED RilavorazioneCon(p, l)} }
                 : p \in 1..Len(proc) }

\* The due dates the next order of the batch can be given.
ScadenzeAbilitate(prod) ==
    {scad \in cfg.lotto_scadenze : ENABLED RilasciaOrdineCon(prod, scad)}

\* C14: two runs constructed with the same seed, the same configuration and the
\* same order-dispatch sequence produce identical per-resource event logs. In a
\* seeded run every state has one successor at most once the next order of the
\* batch is given: one due date for the order released, and one step of the
\* kernel or of a process, with one value for the draw it makes. The run, and
\* with it each resource's log_eventi, is then a function of the seed, the
\* configuration and the sequence of products released.
C14_StessoSemeStessaEsecuzione ==
    cfg.seme # NON_IMPOSTATO =>
        /\ Cardinality(PassiAbilitati) <= 1
        /\ \A prod \in cfg.lotto_prodotti : Cardinality(ScadenzeAbilitate(prod)) <= 1

\* A seeded batch run to its end, with a breakdown and a processing interval
\* in the log of one machine.
C14_GuastoNelRegistro ==
    /\ cfg.seme # NON_IMPOSTATO
    /\ Len(ordine) >= 2
    /\ Len(ordini_completati) = Len(ordine)
    /\ \E r \in DOMAIN risorsa :
          /\ \E i \in 1..Len(risorsa[r].log_eventi) :
                risorsa[r].log_eventi[i].tipo = "guasto"
          /\ \E i \in 1..Len(risorsa[r].log_eventi) :
                risorsa[r].log_eventi[i].tipo = "lavorazione"

-----------------------------------------------------------------------------
(* Routings *)

\* The machines of each product's routing sheet, in order.
Ciclo(prod) ==
    CASE prod = "FL-01" -> <<"Troncatrice", "Trapano", "Banco Controllo", "Banco Controllo">>
      [] prod = "PN-03" -> <<"Troncatrice", "Tornio", "Rettifica", "Banco Controllo">>
      [] prod = "IN-07" -> <<"Troncatrice", "Fresa", "Rettifica", "Forno",
                             "Banco Controllo">>
      [] prod = "RD-01" -> <<"Banco Assemblaggio", "Banco Collaudo">>

CoppiaRilavorazione == <<"Rettifica", "Banco Controllo">>

\* The histories a completed order of the product may have.
CronologieAmmesse(prod) ==
    IF prod \in {"PN-03", "IN-07"}
    THEN {Ciclo(prod), Ciclo(prod) \o CoppiaRilavorazione,
          Ciclo(prod) \o CoppiaRilavorazione \o CoppiaRilavorazione}
    ELSE {Ciclo(prod)}

\* Each operation of the order starts when the one before it has ended.
UnaDopoLAltra(o) ==
    /\ Len(o.log_lavorazioni) = Len(o.cronologia_fasi)
    /\ \A k \in 1..Len(o.log_lavorazioni) :
           /\ o.log_lavorazioni[k].fase = o.cronologia_fasi[k]
           /\ o.log_lavorazioni[k].inizio <= o.log_lavorazioni[k].fine
           /\ k > 1 => o.log_lavorazioni[k].inizio >= o.log_lavorazioni[k - 1].fine

-----------------------------------------------------------------------------
(* Resources held *)

\* p holds a unit of r; p waits for one.
Tiene(p, r) == \E i \in 1..Len(users[r]) : users[r][i] = p
InAttesaDi(p, r) == \E i \in 1..Len(put_queue[r]) : put_queue[r][i].p = p
UnitaDi(p, r) == Cardinality({i \in 1..Len(users[r]) : users[r][i] = p})

\* p is in an operation in which a breakdown was triggered, between the roll
\* and the end of the processing.
DopoGuasto(p) ==
    /\ proc[p].tempo_riparazione > 0
    /\ \/ proc[p].pc \in {"avanza", "consuma", "riparato", "operatore", "lavora",
                          "lavorato"}
       \/ proc[p].pc = "attendi" /\ proc[p].ret \in {"avanza", "consuma", "lavora"}

\* C22: when a breakdown is triggered in an operation, the order keeps holding
\* its machine unit during the whole repair and through the following operator
\* wait and processing; that unit is granted to no other order before the
\* operation's processing has ended.
C22_TieneDuranteRiparazione ==
    \A p \in 1..Len(proc) :
        DopoGuasto(p) =>
            LET m == Prossimo(p).macchina
            IN  /\ UnitaDi(p, m) = 1
                /\ Len(users[m]) <= cfg.capacita[m]
                /\ \A q \in 1..Len(proc) : q # p => UnitaDi(q, m) <= 1

\* An order whose machine was repaired waits for its operator, or works, while
\* another order waits for that machine.
C22_RiparataEContesa ==
    \E p, q \in 1..Len(proc) :
        /\ p # q
        /\ DopoGuasto(p)
        /\ proc[p].pc \in {"attendi", "lavorato"}
        /\ proc[p].ret = "lavora"
        /\ \E i \in 1..Len(risorsa[Prossimo(p).macchina].log_eventi) :
               risorsa[Prossimo(p).macchina].log_eventi[i].tipo = "guasto"
        /\ InAttesaDi(q, Prossimo(p).macchina)

\* p is outside every operation: at the daily-cap gate, between two steps of
\* its routing, at the shift wait that precedes a request, on a buffer get,
\* completed, or ended by an error.
FuoriOperazione(p) ==
    \/ proc[p].pc \in {"elabora", "ciclo", "prelevato", "terminato", "fallito"}
    \/ proc[p].pc = "attendi" /\ proc[p].ret = "richiedi"

NonTieneNulla(p) ==
    \A r \in DOMAIN users : UnitaDi(p, r) = 0 /\ ~InAttesaDi(p, r)

\* C23: when an operation ends, normally or through an error raised inside it,
\* the machine unit and the operator unit it held are both released; a work
\* order that is between two operations, waiting at the daily-cap gate, blocked
\* on a buffer get, or completed holds no resource unit.
C23_RilasciaTutto ==
    \A p \in 1..Len(proc) : FuoriOperazione(p) => NonTieneNulla(p)

\* An order ended by the error of its second operation, after its first ended
\* normally with a machine and an operator, while another order is blocked on
\* a get and a third waits at the gate.
C23_ErroreGetECancello ==
    \E p, q, g \in 1..Len(proc) :
        /\ proc[p].pc = "fallito"
        /\ ordine[p].cronologia_fasi = <<"Troncatrice">>
        /\ \E i \in 1..Len(concessioni["Tornio"]) : concessioni["Tornio"][i].p = p
        /\ \E i \in 1..Len(concessioni["Operatore Generico"]) :
               concessioni["Operatore Generico"][i].p = p
        /\ proc[q].pc = "prelevato"
        /\ \E i \in 1..Len(get_queue["IN-07"]) : get_queue["IN-07"][i] = q
        /\ proc[g].pc = "elabora"
        /\ InCoda("timeout", g, "")

-----------------------------------------------------------------------------
(* Contention *)

Macchine == TipoMacchinario \cap DOMAIN users
Operatori == TipoOperatore \cap DOMAIN users

\* An operator is requested or held only while a machine is held, and a
\* machine is never requested while an operator is requested or held.
OrdineDiAcquisizione(p) ==
    /\ (\E o \in Operatori : Tiene(p, o) \/ InAttesaDi(p, o)) =>
           \E m \in Macchine : Tiene(p, m)
    /\ (\E m \in Macchine : InAttesaDi(p, m)) =>
           \A r \in DOMAIN users : ~Tiene(p, r)

NessunaRisorsaImpegnata ==
    \A r \in DOMAIN users : users[r] = <<>> /\ put_queue[r] = <<>>

\* C24: resource contention alone never deadlocks: an operator is requested
\* only while a machine is held and a machine is never requested while an
\* operator is held, so for any finite set of dispatched orders every operation
\* that is granted a machine eventually finishes and releases it, and every
\* queued machine or operator request is eventually granted: a request leaves
\* its queue only by being granted, and in the end no unit is held and no
\* request is queued.
C24_NessunoStallo ==
    /\ [](\A p \in 1..Len(proc) : OrdineDiAcquisizione(p))
    /\ [][\A p \in 1..Len(proc) : \A r \in DOMAIN users :
             (InAttesaDi(p, r) /\ ~InAttesaDi(p, r)') => Tiene(p, r)']_vars
    /\ <>[]NessunaRisorsaImpegnata

\* Every order of a batch completed, after one of them waited for a machine
\* that was being repaired under another.
C24_TuttiCompletatiDopoAttesa ==
    /\ Len(ordine) >= 2
    /\ Len(ordini_completati) = Len(ordine)
    /\ NessunaRisorsaImpegnata
    /\ \E r \in Macchine :
          /\ \E i \in 1..Len(risorsa[r].log_eventi) :
                 risorsa[r].log_eventi[i].tipo = "guasto"
          /\ \E i \in 1..Len(concessioni[r]) : concessioni[r][i].occupati > 0

-----------------------------------------------------------------------------
(* Concurrent withdrawals *)

\* The RD-01 orders that have started their assembly.
Assemblati ==
    Cardinality({p \in 1..Len(ordine) :
        ordine[p].prodotto = "RD-01"
        /\ \E i \in 1..Len(richieste["Banco Assemblaggio"]) :
               richieste["Banco Assemblaggio"][i].p = p})

\* The intermediate buffers hold one complete set, every order that makes a
\* component is completed, and an RD-01 order is still without its set.
UnSetDisponibile ==
    /\ avviato
    /\ Len(magazzino_intermedio["FL-01"]) >= 1
    /\ Len(magazzino_intermedio["IN-07"]) >= 2
    /\ \A p \in 1..Len(ordine) :
           ordine[p].prodotto # "RD-01" => proc[p].pc = "terminato"
    /\ \E p \in 1..Len(ordine) :
           ordine[p].prodotto = "RD-01" /\ ~HaPrelevatoTutto(p)

\* C25: if the intermediate buffers hold enough components for at least one
\* complete RD-01 set (1 FL-01 and 2 IN-07) and no further component will
\* arrive, then at least one of the RD-01 orders waiting for components
\* eventually obtains its full set and starts assembly: one more assembly is
\* started than had been.
C25_UnoOttieneIlSet ==
    \A n \in 0..MaxOrdiniAssemblaggio :
        (UnSetDisponibile /\ Assemblati = n) ~> (Assemblati > n)

-----------------------------------------------------------------------------
(* Setups and processing against the shift *)

\* The interval from a to b lies inside one weekday shift window of c.
NelTurno(a, b, c) ==
    /\ weekday(a) < 5
    /\ a \div GIORNO = b \div GIORNO
    /\ a % GIORNO >= c.orario_inizio_turno * 60 * MILLI
    /\ b % GIORNO <= c.orario_fine_turno * 60 * MILLI

VociLog(tipo) ==
    {v \in UNION {{risorsa[r].log_eventi[i] : i \in 1..Len(risorsa[r].log_eventi)}
                  : r \in Risorse} : v.tipo = tipo}

\* C26: a setup is consumed shift-aware: no setup interval logged on a machine
\* covers time outside a weekday shift window, and the setup usage recorded
\* on the machine is the configured setup duration for each setup logged.
C26_SetupNelTurno ==
    /\ \A v \in VociLog("setup") : NelTurno(v.inizio, v.fine, cfg)
    /\ \A r \in Risorse :
           risorsa[r].tempo_setup =
               cfg.tempo_setup_minuti
               * Cardinality({i \in 1..Len(risorsa[r].log_eventi) :
                                  risorsa[r].log_eventi[i].tipo = "setup"})

MinutoNelTurno(t, c) ==
    /\ weekday(t) < 5
    /\ round_minuti(t) % MINUTI_GIORNALIERI >= c.orario_inizio_turno * 60
    /\ round_minuti(t) % MINUTI_GIORNALIERI < c.orario_fine_turno * 60

\* The operations an order has logged as carried out with an operator.
ConOperatore ==
    {l \in UNION {{ordine[p].log_lavorazioni[i] :
                      i \in 1..Len(ordine[p].log_lavorazioni)} : p \in 1..Len(ordine)}
        : l.operatore # NESSUNO}

-----------------------------------------------------------------------------
(* The working time avanza_tempo_lavorativo consumes *)

\* The ticks between clock readings a and b that lie inside a weekday shift
\* window of c, day by day.
RECURSIVE TempoNelTurno(_, _, _)
TempoNelTurno(a, b, c) ==
    IF a >= b THEN 0
    ELSE LET giorno == a \div GIORNO
             domani == (giorno + 1) * GIORNO
             apre == giorno * GIORNO + c.orario_inizio_turno * 60 * MILLI
             chiude == giorno * GIORNO + c.orario_fine_turno * 60 * MILLI
             da == Max(a, apre)
             fino == Min(Min(b, domani), chiude)
         IN  (IF weekday(a) < 5 /\ fino > da THEN fino - da ELSE 0)
             + TempoNelTurno(Min(b, domani), b, c)

\* C28: avanza_tempo_lavorativo(total) returns when exactly total minutes of
\* weekday in-shift time have elapsed since the call: the time it skips
\* outside the shift and on the weekend is not counted, and no in-shift time
\* passes uncounted.
C28_EsattamenteTotale ==
    (cfg.strategie = "chiamante" /\ cfg.durata_avanza > 0) =>
        \A p \in 1..Len(ordine) :
            Ritornato(p) =>
                TempoNelTurno(cfg.istante, ordine[p].tempo_completamento, cfg)
                    = cfg.durata_avanza

\* The clock reading t is on a weekday, its minute of day inside the shift of c.
InTurno(t, c) ==
    /\ weekday(t) < 5
    /\ t % GIORNO >= c.orario_inizio_turno * 60 * MILLI
    /\ t % GIORNO < c.orario_fine_turno * 60 * MILLI

\* C29: when attendi_turno_lavorativo returns, the clock is on a weekday with
\* its minute of day inside [shift open, shift close); a call made at such a
\* reading returns without advancing the clock.
C29_RitornaNelTurno ==
    (cfg.strategie = "chiamante" /\ cfg.durata_avanza = 0) =>
        \A p \in 1..Len(ordine) :
            Ritornato(p) =>
                /\ InTurno(ordine[p].tempo_completamento, cfg)
                /\ InTurno(cfg.istante, cfg) =>
                       ordine[p].tempo_completamento = cfg.istante

-----------------------------------------------------------------------------
(* The finished-goods buffers *)

\* The orders of prod whose main sequence, rework included, has ended.
FinitiDi(prod) ==
    {p \in 1..Len(ordine) : ordine[p].prodotto = prod /\ CicloFinito(p)}

\* C30: every order of a product that has a finished-goods buffer (there is
\* one per product type) is appended to that buffer exactly once when its
\* main sequence, rework included, has ended: whenever no process is running,
\* the buffer's length is the number of orders of the product that have
\* finished their routing, and no order is in it twice.
C30_ScorteUnaPerOrdine ==
    attivo = 0 =>
        \A prod \in DOMAIN buffer_scorte :
            /\ Len(buffer_scorte[prod]) = Cardinality(FinitiDi(prod))
            /\ \A i, j \in 1..Len(buffer_scorte[prod]) :
                   i # j => buffer_scorte[prod][i] # buffer_scorte[prod][j]

-----------------------------------------------------------------------------
(* The replenishment monitor *)

\* The events of the monitor's process that wait in the queue.
EventiMonitor == {i \in 1..Len(coda) : coda[i].p = MONITOR}

\* The orders that a step adds, and those of them that are of prod.
Aggiunti == (Len(ordine) + 1)..Len(ordine')
AggiuntiDi(prod) == {p \in Aggiunti : ordine'[p].prodotto = prod}

\* C31: the monitor wakes up every 60 minutes; a wake-up issues orders for a
\* product if and only if the product has a reorder point and the length of
\* its finished-goods buffer is strictly below it, and then it issues exactly
\* the reorder quantity (10 when none is configured); each order is created at
\* the current time, is due 2880 minutes later and starts elabora_ordine; no
\* other step of a started run creates an order.
C31_RiordinoSottoSoglia ==
    /\ [](HaMonitor(cfg) /\ errore = "" =>
             /\ attivo = MONITOR => EventiMonitor = {} /\ now % (60 * MILLI) = 0
             /\ attivo # MONITOR =>
                    /\ Cardinality(EventiMonitor) = 1
                    /\ \A i \in EventiMonitor :
                           /\ coda[i].t % (60 * MILLI) = 0
                           /\ coda[i].t <= now + 60 * MILLI)
    /\ [][/\ (avviato /\ attivo # MONITOR) => Aggiunti = {}
          /\ (attivo = MONITOR /\ now > 0) =>
                 /\ \A prod \in TipoProdotto :
                        LET rop == cfg.livelli_scorta_minima[prod]
                            eoq == cfg.lotto_riordino_standard[prod]
                        IN  Cardinality(AggiuntiDi(prod)) =
                                IF rop # NON_IMPOSTATO /\ Len(buffer_scorte[prod]) < rop
                                THEN (IF eoq = NON_IMPOSTATO THEN 10 ELSE eoq)
                                ELSE 0
                 /\ \A p \in Aggiunti :
                        /\ ordine'[p].riordino
                        /\ ordine'[p].tempo_creazione = now
                        /\ ordine'[p].scadenza = now + 2880 * MILLI
                        /\ proc'[p].pc = "elabora"
                        /\ \E i \in 1..Len(coda') :
                               coda'[i].p = p /\ coda'[i].tipo = "init" /\ coda'[i].t = now
         ]_vars

\* The monitor has found a buffer at its reorder point and issued nothing for
\* it, after it had found it below and issued a batch.
C31_RiordinatoPoiAlLivello ==
    /\ attivo = MONITOR /\ now > 0
    /\ \E prod \in TipoProdotto :
           /\ Len(buffer_scorte[prod]) = cfg.livelli_scorta_minima[prod]
           /\ \E p \in 1..Len(ordine) : ordine[p].riordino /\ ordine[p].prodotto = prod
    /\ \E prod \in TipoProdotto :
           /\ cfg.livelli_scorta_minima[prod] = NON_IMPOSTATO
           /\ \E p \in 1..Len(ordine) : ordine[p].prodotto = prod

\* The replenishment orders of prod that have not ended.
RiordiniInCorso(prod) ==
    {p \in 1..Len(ordine) :
        ordine[p].riordino /\ ordine[p].prodotto = prod /\ proc[p].pc # "terminato"}

\* C32: the replenishment orders of a product that have not ended are never
\* more than one reorder quantity: the monitor issues no further batch for a
\* product while orders of an earlier batch are in progress.
C32_UnLottoPerVolta ==
    \A prod \in TipoProdotto :
        Cardinality(RiordiniInCorso(prod)) <= QuantitaRiordino(cfg, prod)

-----------------------------------------------------------------------------
(* The daily caps and the calendar *)

\* The requests order p has made for a machine.
RichiesteMacchinaDi(p) ==
    {rq \in UNION {{richieste[m][i] : i \in 1..Len(richieste[m])} : m \in Macchine} :
        rq.p = p}

\* The orders whose first operation started (its machine was asked for) on day d.
AvviatiNelGiorno(d) ==
    {p \in 1..Len(ordine) :
        /\ \E rq \in RichiesteMacchinaDi(p) : rq.t \div GIORNO = d
        /\ \A rq \in RichiesteMacchinaDi(p) : rq.t \div GIORNO >= d}

\* C33: on every simulated day the orders that start their first operation are
\* at most the global daily cap and, per product, at most the product's cap;
\* the slots taken at the gate on a Saturday or a Sunday do not add to the
\* starts of the next working day.
C33_AvviiEntroIlLimite ==
    \A d \in 0..(now \div GIORNO) :
        /\ cfg.limite_produzione_totale_giornaliera # NON_IMPOSTATO =>
               Cardinality(AvviatiNelGiorno(d)) <= cfg.limite_produzione_totale_giornaliera
        /\ \A prod \in TipoProdotto :
               (cfg.ha_limiti_prodotto
                /\ cfg.limiti_produzione_giornaliera[prod] # NON_IMPOSTATO) =>
                   Cardinality({p \in AvviatiNelGiorno(d) : ordine[p].prodotto = prod})
                       <= cfg.limiti_produzione_giornaliera[prod]

-----------------------------------------------------------------------------
(* The components of the assemblies *)

\* The get of order p has been served: the store has handed the item to the
\* get event, and p has not yet resumed to append it to its list.
Consegnato(p) ==
    /\ proc[p].pc = "prelevato"
    /\ \A c \in DOMAIN get_queue : \A i \in 1..Len(get_queue[c]) : get_queue[c][i] # p

\* The components order p holds: those in its list and the one just handed over.
ComponentiDi(p) ==
    ordine[p].componenti_consumati \o (IF Consegnato(p) THEN <<proc[p].comp>> ELSE <<>>)

\* Order p, of component c, has put itself in the intermediate store.
HaDepositato(p, c) ==
    /\ ordine[p].prodotto = c
    /\ proc[p].pc # "elabora"
    /\ \A i \in 1..Len(proc[p].programma) : proc[p].programma[i].k # "put_m"

\* C34: no component is held by two assemblies or twice by one, a component
\* that was withdrawn is no longer in the intermediate buffer, and for each
\* component the number held by the assemblies plus the length of its buffer
\* is the initial stock plus the number of orders of it that have put
\* themselves in the buffer.
C34_ComponentiConservati ==
    /\ \A p, q \in 1..Len(ordine) :
          \A i \in 1..Len(ComponentiDi(p)), j \in 1..Len(ComponentiDi(q)) :
              (p # q \/ i # j) => ComponentiDi(p)[i] # ComponentiDi(q)[j]
    /\ \A p \in 1..Len(ordine) : \A i \in 1..Len(ComponentiDi(p)) :
          LET x == ComponentiDi(p)[i]
          IN  /\ x.prodotto \in DOMAIN magazzino_intermedio
              /\ \A k \in 1..Len(magazzino_intermedio[x.prodotto]) :
                     magazzino_intermedio[x.prodotto][k] # x
    /\ \A c \in DOMAIN magazzino_intermedio :
          Cardinality({x \in (1..Len(ordine)) \X (1..4) :
                          /\ x[2] <= Len(ComponentiDi(x[1]))
                          /\ ComponentiDi(x[1])[x[2]].prodotto = c})
              + Len(magazzino_intermedio[c])
          = cfg.quantita_iniziali[c]
              + Cardinality({p \in 1..Len(ordine) : HaDepositato(p, c)})

\* Two assemblies hold their components, one a component of the initial
\* stock and one a component that an order of the batch has put.
C34_DueAssemblaggiServiti ==
    \E p, q \in 1..Len(ordine) :
        /\ p # q
        /\ \E i \in 1..Len(ComponentiDi(p)) : ComponentiDi(p)[i].stock
        /\ \E j \in 1..Len(ComponentiDi(q)) : ~ComponentiDi(q)[j].stock
        /\ Len(ordine[p].componenti_consumati) = 3

\* The order of the item x of an intermediate store is in the list of an assembly.
Incorporato(x) ==
    \E q \in 1..Len(ordine) : \E i \in 1..Len(ordine[q].componenti_consumati) :
        ordine[q].componenti_consumati[i] = x

\* C35: the consumed flag (consumato) of a work order is true if and only if
\* the order was withdrawn from an intermediate buffer and appended to the
\* consumed-components list of an assembly.
C35_ConsumatoSeIncorporato ==
    /\ \A p \in 1..Len(ordine) :
          ordine[p].consumato <=> Incorporato(Articolo(FALSE, ordine[p].prodotto, p))
    /\ \A c \in DOMAIN depositi : \A i \in 1..Len(depositi[c]) :
          OrdineDi(depositi[c][i]).consumato <=> Incorporato(depositi[c][i])

-----------------------------------------------------------------------------
(* The event log of a machine *)

\* The entries of the log of machine m that cover the instant t.
VociSu(m, t) ==
    {i \in 1..Len(risorsa[m].log_eventi) :
        risorsa[m].log_eventi[i].inizio <= t /\ t < risorsa[m].log_eventi[i].fine}

-----------------------------------------------------------------------------
(* The usage counters and the event log *)

RECURSIVE SommaLunghezze(_)
SommaLunghezze(log) ==
    IF log = <<>> THEN 0
    ELSE (Head(log).fine - Head(log).inizio) + SommaLunghezze(Tail(log))

\* The counter of resource record rec for the usage category tipo.
Contatore(rec, tipo) ==
    CASE tipo = "lavorazione" -> rec.tempo_lavorazione
      [] tipo = "setup" -> rec.tempo_setup
      [] tipo = "guasto" -> rec.tempo_guasto

Categorie == {"lavorazione", "setup", "guasto"}

\* C37, as stated: for every resource, machine or operator, the total busy
\* time is the sum of the processing, setup and breakdown counters and the sum
\* of the lengths of the intervals in the resource's event log.
C37_TotaleComeIntervalli ==
    \A r \in DOMAIN users :
        /\ risorsa[r].tempo_occupato_totale =
               risorsa[r].tempo_lavorazione + risorsa[r].tempo_setup + risorsa[r].tempo_guasto
        /\ risorsa[r].tempo_occupato_totale = SommaLunghezze(risorsa[r].log_eventi)

\* A step that records a usage on resource r: a counter of r changes.
RegistraUso(r) ==
    \E f \in {"tempo_occupato_totale", "tempo_lavorazione", "tempo_setup", "tempo_guasto"} :
        risorsa'[r][f] # risorsa[r][f]

\* C37, amended: a usage recorded on a resource adds its duration to the
\* counter of its category and to the total and changes no other counter; on
\* a machine it comes with exactly one log interval [now - duration, now] of
\* that category, on an operator with none, and no log entry is made without
\* a usage; so for every resource the total is the sum of the three counters,
\* for every machine it is also the sum of the lengths of the logged
\* intervals, and the log of an operator stays empty.
C37_UsoSulleMacchineConIntervallo ==
    /\ [](\A r \in DOMAIN users :
            /\ risorsa[r].tempo_occupato_totale =
                   risorsa[r].tempo_lavorazione + risorsa[r].tempo_setup
                       + risorsa[r].tempo_guasto
            /\ r \in Macchine =>
                   risorsa[r].tempo_occupato_totale = SommaLunghezze(risorsa[r].log_eventi)
            /\ r \in Operatori => risorsa[r].log_eventi = <<>>)
    /\ [][\A r \in DOMAIN users :
            /\ RegistraUso(r) =>
                  \E tipo \in Categorie :
                      LET d == Contatore(risorsa'[r], tipo) - Contatore(risorsa[r], tipo)
                      IN  /\ d > 0
                          /\ risorsa'[r].tempo_occupato_totale =
                                 risorsa[r].tempo_occupato_totale + d
                          /\ \A altro \in Categorie \ {tipo} :
                                 Contatore(risorsa'[r], altro) = Contatore(risorsa[r], altro)
                          /\ IF r \in Macchine
                             THEN /\ Len(risorsa'[r].log_eventi) =
                                         Len(risorsa[r].log_eventi) + 1
                                  /\ SubSeq(risorsa'[r].log_eventi, 1,
                                            Len(risorsa[r].log_eventi)) = risorsa[r].log_eventi
                                  /\ LET v == risorsa'[r].log_eventi[Len(risorsa'[r].log_eventi)]
                                     IN  v.tipo = tipo /\ v.inizio = now - d /\ v.fine = now
                             ELSE risorsa'[r].log_eventi = risorsa[r].log_eventi
            /\ ~RegistraUso(r) => risorsa'[r].log_eventi = risorsa[r].log_eventi
         ]_vars

\* An operator has a processing usage recorded and no log entry, on a run in
\* which a machine has logged a setup and a breakdown.
C37_OperatoreSenzaIntervalli ==
    /\ \E o \in Operatori :
           risorsa[o].tempo_lavorazione > 0 /\ risorsa[o].log_eventi = <<>>
    /\ \E m \in Macchine : risorsa[m].tempo_setup > 0
    /\ \E m \in Macchine : risorsa[m].tempo_guasto > 0

-----------------------------------------------------------------------------
(* The cycle-time estimator *)

\* The sum of the base durations of the operations on the machines of fasi.
RECURSIVE SommaBase(_, _, _)
SommaBase(fasi, prod, c) ==
    IF fasi = <<>> THEN 0
    ELSE c.tempi_lavorazione[Head(fasi)][prod] + SommaBase(Tail(fasi), prod, c)

\* C38: for every product the estimate of stima_tempo_ciclo is the sum of the
\* base durations of the operations esegui_processo executes in its main
\* sequence: with rework off, of the operations in the history of an order
\* that has ended.
C38_StimaComeCicloEseguito ==
    \A p \in 1..Len(ordine) :
        (proc[p].pc = "terminato" /\ cfg.strategie = "cicli"
         /\ cfg.probabilita_rifacimento = 0) =>
            stima_tempo_ciclo(ordine[p].prodotto, cfg) =
                SommaBase(ordine[p].cronologia_fasi, ordine[p].prodotto, cfg)

-----------------------------------------------------------------------------
(* An order without a routing strategy *)

\* The step in which the dispatch of order p fails for want of a strategy.
FallisceSenzaStrategia(p) ==
    /\ Strategia(ordine[p].prodotto, cfg) = <<>>
    /\ proc[p].pc = "elabora"
    /\ proc'[p].pc = "fallito"

\* C39: the dispatch of an order whose product has no routing strategy fails
\* and leaves the daily production counters, per product and total, as they
\* were: the failed order takes no slot of the daily cap.
C39_FallitoSenzaSlot ==
    [][\A p \in 1..Len(ordine) :
          FallisceSenzaStrategia(p) =>
              UNCHANGED <<produzione_giornaliera_per_prodotto, produzione_giornaliera_totale>>
      ]_vars

-----------------------------------------------------------------------------
(* The end of the stepping loop *)

\* One of the loop's reasons to stop holds: every order of the batch is
\* completed, or the clock is past the horizon.
MotivoDiArresto ==
    \/ Len(ordini_completati) >= totale_ordini
    \/ now > cfg.durata_giorni * GIORNO

\* The stepping loop has stopped: no process is running, and the schedule is
\* empty, a reason to stop holds or step has raised.
CicloFermo ==
    /\ avviato
    /\ attivo = 0
    /\ (coda = <<>> \/ MotivoDiArresto \/ errore # "")

\* C40: the stepping loop of esegui_lotto_stocastico always terminates, also
\* with orders blocked for ever and the monitor scheduling events without
\* end: the loop stops in the end and stays stopped, and once every order of
\* the batch is completed or the clock is past the horizon no further event
\* is taken from the schedule and the clock no longer moves.
C40_CicloTermina ==
    /\ <>[]CicloFermo
    /\ [][(avviato /\ attivo = 0 /\ MotivoDiArresto) =>
              (now' = now /\ coda' = coda /\ attivo' = 0)]_vars

\* The loop has stopped past the horizon, with an order blocked on a get and
\* the next wake-up of the monitor still in the schedule.
C40_FermoOltreLOrizzonte ==
    /\ CicloFermo
    /\ now > cfg.durata_giorni * GIORNO
    /\ Len(ordini_completati) < totale_ordini
    /\ \E c \in DOMAIN get_queue : get_queue[c] # <<>>
    /\ EventiMonitor # {}

=============================================================================
